---------------------------- MODULE Spec2Model ----------------------------
(***************************************************************************)
(* A model of the AgentMesh SDK:                                           *)
(*   - packages/sdk/src/crypto.ts   (AES-256-GCM codec, packed blob)       *)
(*   - packages/sdk/src/mesh.ts     (AgentMesh.store / retrieve)           *)
(*   - packages/sdk/src/ipfs.ts     (IPFSClient, the content store)        *)
(*   - packages/sdk/src/discovery.ts (MeshDiscovery)                       *)
(*                                                                         *)
(* Byte buffers are sequences over 0..255, base64 strings are sequences    *)
(* of sextets 0..63 with 64 standing for the padding character '=', and    *)
(* JavaScript strings are sequences of code points.                        *)
(***************************************************************************)
EXTENDS Integers, Sequences, FiniteSets, TLC

VARIABLES
    \* ---- codec harness (crypto.ts called directly) ----
    cPhase,      \* "input" | "encrypted" | "packed" | "unpacked" | "done"
    cPlain,      \* the plaintext handed to encrypt
    cKey,        \* the key handed to encrypt
    cPayload,    \* the EncryptedPayload returned by encrypt
    cBlob,       \* the packed blob (possibly tampered with, or foreign)
    cOrigin,     \* "none" | "packed" | "flipped" | "foreign": where cBlob is from
    cFlip,       \* the bit position flipped in cBlob (0: none)
    cUnpacked,   \* result of unpackPayload(cBlob)
    cDecKey,     \* the key handed to decrypt
    cOut         \* result of decrypt

VARIABLES
    \* ---- AgentMesh instances over one IPFS node (mesh.ts, ipfs.ts) ----
    meshConfig,  \* per instance: config.encryptionKey (passphrase or buffer)
    meshKey,     \* per instance: this.key
    ipfsStore,   \* the node's blobs; the CID of ipfsStore[i] is i
    ipfsOrigin,  \* per blob: who produced it (the key and the memory stored)
    call         \* the store/retrieve call in flight, or the last one completed

codecVars == <<cPhase, cPlain, cKey, cPayload, cBlob, cOrigin, cFlip,
               cUnpacked, cDecKey, cOut>>

VARIABLES
    \* ---- MeshDiscovery over the node's swarm (discovery.ts) ----
    instances,       \* the MeshDiscovery instances that have been constructed
    selfId,          \* the node's own peer id, what /api/v0/id answers
    swarm,           \* the node's open connections, as /api/v0/swarm/peers lists them
    bootRef,         \* per instance: the array this.bootstrapPeers refers to
    bootList,        \* per array: its PeerInfo entries
    connectedPeers,  \* per instance: this.connectedPeers, peerId -> PeerInfo
    dop              \* per instance: the call in flight, or the last one completed

VARIABLES
    \* ---- storeBatch / retrieveBatch of an AgentMesh (mesh.ts) ----
    batch            \* the batch call in flight, or the last one completed

VARIABLES
    \* ---- AgentMeshClient, the client of the HTTP gateway (client.ts) ----
    gwKey,           \* this.apiKey
    gwCall           \* the gateway call in flight, or the last one completed

VARIABLES
    \* ---- the base64 string API of crypto.ts called directly ----
    strCall          \* the text, key and runtime of an encrypt / decrypt pair

meshVars == <<meshConfig, meshKey, ipfsStore, ipfsOrigin, call>>

batchVars == <<batch>>

discVars == <<instances, selfId, swarm, bootRef, bootList, connectedPeers, dop>>

gwVars == <<gwKey, gwCall>>

strVars == <<strCall>>

vars == <<codecVars, meshVars, batchVars, discVars, gwVars, strVars>>

-----------------------------------------------------------------------------
(* Bounds of the model *)

\* longest plaintext handed to encrypt in the codec harness
MaxPlainLen == 2
\* longest foreign blob handed to unpackPayload in the codec harness
MaxForeignLen == 29
\* number of distinct blobs the IPFS node holds at most
MaxStored == 2
\* longest bootstrap list addBootstrapPeer grows
MaxBootLen == 4
\* longest text handed to the string API
MaxStringLen == 2

-----------------------------------------------------------------------------
(* Sequences helpers *)

Range(s) == {s[i] : i \in 1..Len(s)}

\* Buffer.subarray(from [, to]) with 0-based, end-exclusive, clamped offsets
Subarray(buf, from, to) ==
    LET f == IF from > Len(buf) THEN Len(buf) ELSE from
        t == IF to > Len(buf) THEN Len(buf) ELSE to
    IN  IF t <= f THEN <<>> ELSE SubSeq(buf, f + 1, t)

RECURSIVE SeqsUpTo(_, _)
\* all sequences over S of length at most n
SeqsUpTo(S, n) ==
    IF n = 0 THEN {<<>>}
    ELSE LET shorter == SeqsUpTo(S, n - 1)
         IN  shorter \cup {Append(s, x) : s \in {t \in shorter : Len(t) = n - 1}, x \in S}

-----------------------------------------------------------------------------
(* Base64: Buffer.toString('base64') and Buffer.from(s, 'base64') *)

\* the padding character '='
PAD == 63 + 1

\* byte i of b, 0 past its end
ByteAt(b, i) == IF i <= Len(b) THEN b[i] ELSE 0

\* every 3 bytes give 4 sextets; a last group of 1 or 2 bytes is padded
ToBase64(b) ==
    [k \in 1..(4 * ((Len(b) + 2) \div 3)) |->
        LET g == 3 * ((k - 1) \div 4)
            j == (k - 1) % 4
        IN  IF j = 0 THEN b[g + 1] \div 4
            ELSE IF j = 1 THEN (b[g + 1] % 4) * 16 + (ByteAt(b, g + 2) \div 16)
            ELSE IF j = 2 THEN
                IF g + 2 > Len(b) THEN PAD
                ELSE (b[g + 2] % 16) * 4 + (ByteAt(b, g + 3) \div 64)
            ELSE IF g + 3 > Len(b) THEN PAD ELSE b[g + 3] % 64]

\* the sextets before the first padding character, 6 bits each, regrouped
\* into bytes; leftover bits are dropped
FromBase64(s) ==
    LET pads == {i \in 1..Len(s) : s[i] = PAD}
        m == IF pads = {} THEN Len(s)
             ELSE (CHOOSE i \in pads : \A o \in pads : i <= o) - 1
    IN  [k \in 1..((m * 6) \div 8) |->
            LET g == 4 * ((k - 1) \div 3)
                j == (k - 1) % 3
            IN  IF j = 0 THEN s[g + 1] * 4 + (s[g + 2] \div 16)
                ELSE IF j = 1 THEN (s[g + 2] % 16) * 16 + (s[g + 3] \div 4)
                ELSE (s[g + 3] % 4) * 64 + s[g + 4]]

-----------------------------------------------------------------------------
(* The cipher: node's createHash / createCipheriv / createDecipheriv.      *)
(* AES-256-GCM and SHA-256 are library code; they are modelled by a        *)
(* keystream cipher with a keyed tag over (key, iv, ciphertext) that has   *)
(* the library's interface: a 32-byte key, an iv of at least one byte, a   *)
(* ciphertext as long as the plaintext and a 16-byte tag that final()      *)
(* verifies.                                                               *)

IV_LENGTH == 12
AUTH_TAG_LENGTH == 16
KEY_LENGTH == 32

RECURSIVE WeightedRange(_, _, _, _)
\* the sum over i in lo..hi of s[i] * (2i + w), modulo 256
WeightedRange(s, w, lo, hi) ==
    IF lo > hi THEN 0
    ELSE IF lo = hi THEN (s[lo] * (2 * lo + w)) % 256
    ELSE LET mid == (lo + hi) \div 2
         IN  (WeightedRange(s, w, lo, mid) + WeightedRange(s, w, mid + 1, hi)) % 256

WeightedSum(s, w) == WeightedRange(s, w, 1, Len(s))

\* createHash('sha256').update(passphrase).digest(): 32 bytes
Sha256(str) ==
    [i \in 1..KEY_LENGTH |-> (WeightedSum(str, i) + 31 * i + Len(str)) % 256]

KeyStream(key, iv, i) ==
    (key[((i - 1) % KEY_LENGTH) + 1] + iv[((i - 1) % Len(iv)) + 1] + i) % 256

GcmTag(key, iv, ct) ==
    [j \in 1..AUTH_TAG_LENGTH |->
        (key[j] + 3 * key[j + 16] + iv[((j - 1) % Len(iv)) + 1]
            + WeightedSum(ct, 1) + Len(ct) + Len(iv) + j) % 256]

GcmCrypt(key, iv, data) ==
    [i \in 1..Len(data) |-> (data[i] + KeyStream(key, iv, i)) % 256]

GcmUncrypt(key, iv, ct) ==
    [i \in 1..Len(ct) |-> (ct[i] + 256 - KeyStream(key, iv, i)) % 256]

-----------------------------------------------------------------------------
(* UTF-8: Buffer.from(str, 'utf-8') and Buffer.toString('utf-8') *)

REPLACEMENT == 65532 + 1

RECURSIVE FlattenRange(_, _, _)
\* ss[lo] \o ... \o ss[hi]
FlattenRange(ss, lo, hi) ==
    IF lo > hi THEN <<>>
    ELSE IF lo = hi THEN ss[lo]
    ELSE LET mid == (lo + hi) \div 2
         IN  FlattenRange(ss, lo, mid) \o FlattenRange(ss, mid + 1, hi)

Flatten(ss) == FlattenRange(ss, 1, Len(ss))

Utf8Char(c) ==
    IF c < 128 THEN <<c>>
    ELSE IF c < 2048 THEN <<192 + (c \div 64), 128 + (c % 64)>>
    ELSE <<224 + (c \div 4096), 128 + ((c \div 64) % 64), 128 + (c % 64)>>

Utf8Encode(str) == Flatten([i \in 1..Len(str) |-> Utf8Char(str[i])])

IsCont(b) == b >= 128 /\ b < 192

\* a well-formed two-byte / three-byte sequence starts at index i of b
Valid2(b, i) ==
    /\ i >= 1 /\ i + 1 <= Len(b)
    /\ b[i] >= 194 /\ b[i] < 224
    /\ IsCont(b[i + 1])

Valid3(b, i) ==
    /\ i >= 1 /\ i + 2 <= Len(b)
    /\ b[i] >= 224 /\ b[i] < 240
    /\ IsCont(b[i + 1]) /\ IsCont(b[i + 2])
    /\ (b[i] - 224) * 4096 + (b[i + 1] - 128) * 64 + (b[i + 2] - 128) >= 2048

\* byte i is not the continuation of a sequence that starts before it (a
\* lead byte is never a continuation byte, so it always starts a character)
StartsChar(b, i) == ~(Valid2(b, i - 1) \/ Valid3(b, i - 1) \/ Valid3(b, i - 2))

CharAt(b, i) ==
    IF b[i] < 128 THEN b[i]
    ELSE IF Valid2(b, i) THEN (b[i] - 192) * 64 + (b[i + 1] - 128)
    ELSE IF Valid3(b, i) THEN (b[i] - 224) * 4096 + (b[i + 1] - 128) * 64 + (b[i + 2] - 128)
    ELSE REPLACEMENT

\* every byte that is not part of a well-formed sequence decodes to U+FFFD
Utf8Decode(b) ==
    LET starts == SelectSeq([i \in 1..Len(b) |-> i], LAMBDA i : StartsChar(b, i))
    IN  [k \in 1..Len(starts) |-> CharAt(b, starts[k])]

-----------------------------------------------------------------------------
(* crypto.ts: deriveKey, encrypt, decrypt, packPayload, unpackPayload.     *)
(* A value of type `string | Buffer` is a record [kind, val]; a call that  *)
(* can throw returns [ok, err, ...].                                       *)

Buf(bytes) == [kind |-> "buffer", val |-> bytes]
Str(chars) == [kind |-> "string", val |-> chars]

NoPayload == [ciphertext |-> <<>>, iv |-> <<>>, authTag |-> <<>>]

deriveKey(passphrase) == Sha256(passphrase)

\* mutant of KeyBuffer: a buffer is derived from like a passphrase
KeyBuffer_alwaysDerive(key) == deriveKey(key.val)

\* typeof key === 'string' ? deriveKey(key) : key
KeyBuffer(key) == IF key.kind = "string" THEN deriveKey(key.val) ELSE key.val

\* typeof data === 'string' ? Buffer.from(data, 'utf-8') : data
DataBuffer(data) == IF data.kind = "string" THEN Utf8Encode(data.val) ELSE data.val

\* createCipheriv / createDecipheriv reject a key that is not 32 bytes and
\* an empty iv
CipherInitError(keyBuffer, iv) ==
    IF Len(keyBuffer) # KEY_LENGTH THEN "InvalidKeyLength"
    ELSE IF Len(iv) = 0 THEN "InvalidIV"
    ELSE "none"

\* iv: the bytes randomBytes(IV_LENGTH) returned
encrypt(data, key, iv) ==
    LET keyBuffer == KeyBuffer(key)
        initErr == CipherInitError(keyBuffer, iv)
        dataBuffer == DataBuffer(data)
        encrypted == GcmCrypt(keyBuffer, iv, dataBuffer)
        authTag == GcmTag(keyBuffer, iv, encrypted)
    IN  IF initErr # "none"
        THEN [ok |-> FALSE, err |-> initErr, payload |-> NoPayload]
        ELSE [ok |-> TRUE, err |-> "none",
              payload |-> [ciphertext |-> ToBase64(encrypted),
                           iv |-> ToBase64(iv),
                           authTag |-> ToBase64(authTag)]]

\* mutant of decrypt: a decipher whose final() does not verify the tag
decrypt_unverified(payload, key) ==
    LET keyBuffer == KeyBuffer(key)
        iv == FromBase64(payload.iv)
        authTag == FromBase64(payload.authTag)
        ciphertext == FromBase64(payload.ciphertext)
        initErr == CipherInitError(keyBuffer, iv)
    IN  IF initErr # "none"
        THEN [ok |-> FALSE, err |-> initErr, data |-> <<>>]
        ELSE IF Len(authTag) # AUTH_TAG_LENGTH
        THEN [ok |-> FALSE, err |-> "InvalidAuthTagLength", data |-> <<>>]
        ELSE [ok |-> TRUE, err |-> "none", data |-> GcmUncrypt(keyBuffer, iv, ciphertext)]

decrypt(payload, key) ==
    LET keyBuffer == KeyBuffer(key)
        iv == FromBase64(payload.iv)
        authTag == FromBase64(payload.authTag)
        ciphertext == FromBase64(payload.ciphertext)
        initErr == CipherInitError(keyBuffer, iv)
    IN  IF initErr # "none"
        THEN [ok |-> FALSE, err |-> initErr, data |-> <<>>]
        \* decipher.setAuthTag with authTagLength: AUTH_TAG_LENGTH
        ELSE IF Len(authTag) # AUTH_TAG_LENGTH
        THEN [ok |-> FALSE, err |-> "InvalidAuthTagLength", data |-> <<>>]
        \* decipher.final() throws when the tag does not verify
        ELSE IF GcmTag(keyBuffer, iv, ciphertext) # authTag
        THEN [ok |-> FALSE, err |-> "AuthFailed", data |-> <<>>]
        ELSE [ok |-> TRUE, err |-> "none", data |-> GcmUncrypt(keyBuffer, iv, ciphertext)]

\* mutant of packPayload: the tag is appended after the ciphertext
packPayload_tagLast(payload) ==
    LET iv == FromBase64(payload.iv)
        authTag == FromBase64(payload.authTag)
        ciphertext == FromBase64(payload.ciphertext)
    IN  iv \o ciphertext \o authTag

packPayload(payload) ==
    LET iv == FromBase64(payload.iv)
        authTag == FromBase64(payload.authTag)
        ciphertext == FromBase64(payload.ciphertext)
    IN  iv \o authTag \o ciphertext

\* mutant of unpackPayload: the tag read before the iv
unpackPayload_tagFirst(packed) ==
    LET authTag == Subarray(packed, 0, AUTH_TAG_LENGTH)
        iv == Subarray(packed, AUTH_TAG_LENGTH, AUTH_TAG_LENGTH + IV_LENGTH)
        ciphertext == Subarray(packed, IV_LENGTH + AUTH_TAG_LENGTH, Len(packed))
    IN  [ok |-> TRUE, err |-> "none",
         payload |-> [iv |-> ToBase64(iv),
                      authTag |-> ToBase64(authTag),
                      ciphertext |-> ToBase64(ciphertext)]]

unpackPayload(packed) ==
    LET iv == Subarray(packed, 0, IV_LENGTH)
        authTag == Subarray(packed, IV_LENGTH, IV_LENGTH + AUTH_TAG_LENGTH)
        ciphertext == Subarray(packed, IV_LENGTH + AUTH_TAG_LENGTH, Len(packed))
    IN  [ok |-> TRUE, err |-> "none",
         payload |-> [iv |-> ToBase64(iv),
                      authTag |-> ToBase64(authTag),
                      ciphertext |-> ToBase64(ciphertext)]]

-----------------------------------------------------------------------------
(* JSON: JSON.stringify and JSON.parse over JSON-compatible values.        *)
(* A string is a sequence of code points; a number is a sign, an integer   *)
(* part and the decimal digits after the point (none for an integer, no    *)
(* trailing zero); an object is the sequence of its <<key, value>> pairs   *)
(* in property order, with distinct keys.                                  *)

JNull == [t |-> "null"]
JBool(b) == [t |-> "bool", b |-> b]
JStr(chars) == [t |-> "str", s |-> chars]
JNum(neg, n, f) == [t |-> "num", neg |-> neg, n |-> n, f |-> f]
JInt(n) == JNum(n < 0, IF n < 0 THEN 0 - n ELSE n, <<>>)
JArr(elems) == [t |-> "arr", a |-> elems]
JObj(pairs) == [t |-> "obj", o |-> pairs]

RECURSIVE Join(_, _)
\* the texts of ss separated by sep
Join(ss, sep) ==
    IF Len(ss) = 0 THEN <<>>
    ELSE IF Len(ss) = 1 THEN ss[1]
    ELSE ss[1] \o sep \o Join(Tail(ss), sep)

HexDigit(n) == IF n < 10 THEN 48 + n ELSE 87 + n

\* mutant of EscapeChar: the backslash is not escaped
EscapeChar_rawBackslash(c) ==
    IF c = 34 THEN <<92, 34>>
    ELSE IF c = 10 THEN <<92, 110>>
    ELSE IF c < 32 THEN <<92, 117, 48, 48, HexDigit(c \div 16), HexDigit(c % 16)>>
    ELSE <<c>>

\* QuoteJSONString: the escapes of one code point
EscapeChar(c) ==
    IF c = 34 THEN <<92, 34>>
    ELSE IF c = 92 THEN <<92, 92>>
    ELSE IF c = 8 THEN <<92, 98>>
    ELSE IF c = 9 THEN <<92, 116>>
    ELSE IF c = 10 THEN <<92, 110>>
    ELSE IF c = 12 THEN <<92, 102>>
    ELSE IF c = 13 THEN <<92, 114>>
    ELSE IF c < 32 THEN <<92, 117, 48, 48, HexDigit(c \div 16), HexDigit(c % 16)>>
    ELSE <<c>>

Quote(chars) ==
    <<34>> \o Flatten([i \in 1..Len(chars) |-> EscapeChar(chars[i])]) \o <<34>>

RECURSIVE Digits(_)
Digits(n) == IF n < 10 THEN <<48 + n>> ELSE Digits(n \div 10) \o <<48 + (n % 10)>>

NumberText(v) ==
    (IF v.neg THEN <<45>> ELSE <<>>)
    \o Digits(v.n)
    \o (IF Len(v.f) = 0 THEN <<>> ELSE <<46>> \o [i \in 1..Len(v.f) |-> 48 + v.f[i]])

RECURSIVE JsonStringify(_)
JsonStringify(v) ==
    IF v.t = "null" THEN <<110, 117, 108, 108>>
    ELSE IF v.t = "bool" THEN
        IF v.b THEN <<116, 114, 117, 101>> ELSE <<102, 97, 108, 115, 101>>
    ELSE IF v.t = "str" THEN Quote(v.s)
    ELSE IF v.t = "num" THEN NumberText(v)
    ELSE IF v.t = "arr" THEN
        <<91>> \o Join([i \in 1..Len(v.a) |-> JsonStringify(v.a[i])], <<44>>) \o <<93>>
    ELSE
        <<123>>
        \o Join([i \in 1..Len(v.o) |->
                    Quote(v.o[i][1]) \o <<58>> \o JsonStringify(v.o[i][2])], <<44>>)
        \o <<125>>

\* ---- JSON.parse: a result is [ok, v, pos], pos the next unread index ----

ParseFail == [ok |-> FALSE, v |-> JNull, pos |-> 0]
Parsed(v, pos) == [ok |-> TRUE, v |-> v, pos |-> pos]

IsWs(c) == c \in {32, 9, 10, 13}
IsDigit(c) == c >= 48 /\ c <= 57
IsHex(c) == IsDigit(c) \/ (c >= 97 /\ c <= 102) \/ (c >= 65 /\ c <= 70)
HexVal(c) == IF IsDigit(c) THEN c - 48 ELSE IF c >= 97 THEN c - 87 ELSE c - 55

RECURSIVE SkipWs(_, _)
SkipWs(t, i) == IF i <= Len(t) /\ IsWs(t[i]) THEN SkipWs(t, i + 1) ELSE i

\* t has the literal lit at index i
HasAt(t, i, lit) ==
    /\ i + Len(lit) - 1 <= Len(t)
    /\ \A k \in 1..Len(lit) : t[i + k - 1] = lit[k]

RECURSIVE DigitRun(_, _)
\* the index after the digits that start at i
DigitRun(t, i) == IF i <= Len(t) /\ IsDigit(t[i]) THEN DigitRun(t, i + 1) ELSE i

RECURSIVE DigitsValue(_, _, _)
DigitsValue(t, from, to) ==
    IF to <= from THEN 0
    ELSE 10 * DigitsValue(t, from, to - 1) + (t[to - 1] - 48)

RECURSIVE StripZeros(_)
StripZeros(f) ==
    IF Len(f) > 0 /\ f[Len(f)] = 0 THEN StripZeros(SubSeq(f, 1, Len(f) - 1)) ELSE f

ParseNumber(t, i) ==
    LET neg == i <= Len(t) /\ t[i] = 45
        i0 == IF neg THEN i + 1 ELSE i
        i1 == DigitRun(t, i0)
        hasFrac == i1 + 1 <= Len(t) /\ t[i1] = 46 /\ IsDigit(t[i1 + 1])
        i2 == IF hasFrac THEN DigitRun(t, i1 + 1) ELSE i1
        frac == IF hasFrac THEN [k \in 1..(i2 - i1 - 1) |-> t[i1 + k] - 48] ELSE <<>>
    IN  IF i1 = i0 THEN ParseFail
        \* no leading zero
        ELSE IF i1 - i0 > 1 /\ t[i0] = 48 THEN ParseFail
        \* a point must be followed by a digit
        ELSE IF i1 <= Len(t) /\ t[i1] = 46 /\ ~hasFrac THEN ParseFail
        ELSE Parsed(JNum(neg, DigitsValue(t, i0, i1), StripZeros(frac)), i2)

RECURSIVE ParseChars(_, _, _)
\* the characters of a string literal whose opening quote precedes i
ParseChars(t, i, acc) ==
    IF i > Len(t) THEN ParseFail
    ELSE IF t[i] = 34 THEN Parsed(JStr(acc), i + 1)
    ELSE IF t[i] < 32 THEN ParseFail
    ELSE IF t[i] # 92 THEN ParseChars(t, i + 1, Append(acc, t[i]))
    ELSE IF i + 1 > Len(t) THEN ParseFail
    ELSE LET e == t[i + 1]
         IN  IF e = 34 \/ e = 92 \/ e = 47 THEN ParseChars(t, i + 2, Append(acc, e))
             ELSE IF e = 98 THEN ParseChars(t, i + 2, Append(acc, 8))
             ELSE IF e = 116 THEN ParseChars(t, i + 2, Append(acc, 9))
             ELSE IF e = 110 THEN ParseChars(t, i + 2, Append(acc, 10))
             ELSE IF e = 102 THEN ParseChars(t, i + 2, Append(acc, 12))
             ELSE IF e = 114 THEN ParseChars(t, i + 2, Append(acc, 13))
             ELSE IF e = 117 /\ i + 5 <= Len(t)
                     /\ \A k \in 2..5 : IsHex(t[i + k]) THEN
                 ParseChars(t, i + 6,
                     Append(acc, HexVal(t[i + 2]) * 4096 + HexVal(t[i + 3]) * 256
                                 + HexVal(t[i + 4]) * 16 + HexVal(t[i + 5])))
             ELSE ParseFail

\* obj with key set to val: a repeated key keeps its place, the last value wins
SetMember(pairs, key, val) ==
    IF \E k \in 1..Len(pairs) : pairs[k][1] = key
    THEN [k \in 1..Len(pairs) |-> IF pairs[k][1] = key THEN <<key, val>> ELSE pairs[k]]
    ELSE Append(pairs, <<key, val>>)

RECURSIVE ParseValue(_, _)
RECURSIVE ParseElements(_, _, _)
RECURSIVE ParseMembers(_, _, _)

ParseValue(t, at) ==
    LET i == SkipWs(t, at)
    IN  IF i > Len(t) THEN ParseFail
        ELSE IF t[i] = 34 THEN ParseChars(t, i + 1, <<>>)
        ELSE IF t[i] = 123 THEN
            LET j == SkipWs(t, i + 1)
            IN  IF j <= Len(t) /\ t[j] = 125 THEN Parsed(JObj(<<>>), j + 1)
                ELSE ParseMembers(t, j, <<>>)
        ELSE IF t[i] = 91 THEN
            LET j == SkipWs(t, i + 1)
            IN  IF j <= Len(t) /\ t[j] = 93 THEN Parsed(JArr(<<>>), j + 1)
                ELSE ParseElements(t, j, <<>>)
        ELSE IF HasAt(t, i, <<116, 114, 117, 101>>) THEN Parsed(JBool(TRUE), i + 4)
        ELSE IF HasAt(t, i, <<102, 97, 108, 115, 101>>) THEN Parsed(JBool(FALSE), i + 5)
        ELSE IF HasAt(t, i, <<110, 117, 108, 108>>) THEN Parsed(JNull, i + 4)
        ELSE IF t[i] = 45 \/ IsDigit(t[i]) THEN ParseNumber(t, i)
        ELSE ParseFail

\* the elements of an array from index i on, up to the closing bracket
ParseElements(t, i, acc) ==
    LET r == ParseValue(t, i)
        j == SkipWs(t, r.pos)
    IN  IF ~r.ok \/ j > Len(t) THEN ParseFail
        ELSE IF t[j] = 93 THEN Parsed(JArr(Append(acc, r.v)), j + 1)
        ELSE IF t[j] = 44 THEN ParseElements(t, j + 1, Append(acc, r.v))
        ELSE ParseFail

\* the members of an object from index i on, up to the closing brace
ParseMembers(t, i, acc) ==
    LET k == SkipWs(t, i)
        key == IF k <= Len(t) /\ t[k] = 34 THEN ParseChars(t, k + 1, <<>>) ELSE ParseFail
        c == SkipWs(t, key.pos)
        val == IF key.ok /\ c <= Len(t) /\ t[c] = 58 THEN ParseValue(t, c + 1) ELSE ParseFail
        j == SkipWs(t, val.pos)
    IN  IF ~val.ok \/ j > Len(t) THEN ParseFail
        ELSE IF t[j] = 125 THEN Parsed(JObj(SetMember(acc, key.v.s, val.v)), j + 1)
        ELSE IF t[j] = 44 THEN ParseMembers(t, j + 1, SetMember(acc, key.v.s, val.v))
        ELSE ParseFail

\* JSON.parse(text): throws SyntaxError unless text is exactly one value
JsonParse(text) ==
    LET r == ParseValue(text, 1)
    IN  IF r.ok /\ SkipWs(text, r.pos) > Len(text)
        THEN [ok |-> TRUE, err |-> "none", v |-> r.v]
        ELSE [ok |-> FALSE, err |-> "SyntaxError", v |-> JNull]

-----------------------------------------------------------------------------
(* The codec harness: crypto.ts called directly, step by step, on bounded  *)
(* inputs; between pack and unpack the blob is in the hands of the         *)
(* untrusted store, which may flip a bit of it or hand back a foreign blob *)

PlainBytes == {0, 200}
Plaintexts == {Buf(p) : p \in SeqsUpTo(PlainBytes, MaxPlainLen)}

KeyA == [i \in 1..KEY_LENGTH |-> i]
KeyB == [i \in 1..KEY_LENGTH |-> (7 * i + 3) % 256]
PassPw == <<112, 119>>
Keys == {Buf(KeyA), Buf(KeyB), Str(PassPw)}

\* values randomBytes(IV_LENGTH) may return
IVs == {[i \in 1..IV_LENGTH |-> 0], [i \in 1..IV_LENGTH |-> (37 * i + 218) % 256]}

ForeignBlobs ==
    {[i \in 1..n |-> (11 * i + c) % 256] : n \in 0..MaxForeignLen, c \in {0, 130}}

Pow2(n) == IF n = 0 THEN 1 ELSE IF n = 1 THEN 2 ELSE IF n = 2 THEN 4
           ELSE IF n = 3 THEN 8 ELSE IF n = 4 THEN 16 ELSE IF n = 5 THEN 32
           ELSE IF n = 6 THEN 64 ELSE 128

\* buf with bit number pos (1-based, 8 per byte) inverted
FlipBit(buf, pos) ==
    LET at == ((pos - 1) \div 8) + 1
        bit == Pow2((pos - 1) % 8)
        old == buf[at]
    IN  [buf EXCEPT ![at] = IF (old \div bit) % 2 = 1 THEN old - bit ELSE old + bit]

NoResult == [ok |-> FALSE, err |-> "pending", data |-> <<>>]
NoUnpacked == [ok |-> FALSE, err |-> "pending", payload |-> NoPayload]

CodecOff ==
    /\ cPhase = "off"
    /\ cPlain = Buf(<<>>)
    /\ cKey = Buf(<<>>)
    /\ cPayload = NoPayload
    /\ cBlob = <<>>
    /\ cOrigin = "none"
    /\ cFlip = 0
    /\ cUnpacked = NoUnpacked
    /\ cDecKey = Buf(<<>>)
    /\ cOut = NoResult

CodecInit ==
    /\ cPhase = "input"
    /\ cPlain \in Plaintexts
    /\ cKey \in Keys
    /\ cPayload = NoPayload
    /\ cBlob = <<>>
    /\ cOrigin = "none"
    /\ cFlip = 0
    /\ cUnpacked = NoUnpacked
    /\ cDecKey = Buf(<<>>)
    /\ cOut = NoResult

CodecEncrypt ==
    /\ cPhase = "input"
    /\ \E iv \in IVs :
          LET r == encrypt(cPlain, cKey, iv)
          IN  /\ r.ok
              /\ cPayload' = r.payload
    /\ cPhase' = "encrypted"
    /\ UNCHANGED <<cPlain, cKey, cBlob, cOrigin, cFlip, cUnpacked, cDecKey, cOut, meshVars, discVars, batchVars, gwVars, strVars>>

CodecPack ==
    /\ cPhase = "encrypted"
    /\ cBlob' = packPayload(cPayload)
    /\ cOrigin' = "packed"
    /\ cPhase' = "packed"
    /\ UNCHANGED <<cPlain, cKey, cPayload, cFlip, cUnpacked, cDecKey, cOut, meshVars, discVars, batchVars, gwVars, strVars>>

CodecFlipBit ==
    /\ cPhase = "packed"
    /\ cOrigin = "packed"
    /\ \E pos \in 1..(8 * Len(cBlob)) :
          /\ cBlob' = FlipBit(cBlob, pos)
          /\ cFlip' = pos
    /\ cOrigin' = "flipped"
    /\ UNCHANGED <<cPhase, cPlain, cKey, cPayload, cUnpacked, cDecKey, cOut, meshVars, discVars, batchVars, gwVars, strVars>>

CodecForeign ==
    /\ cPhase = "input"
    /\ cBlob' \in ForeignBlobs
    /\ cOrigin' = "foreign"
    /\ cPhase' = "packed"
    /\ UNCHANGED <<cPlain, cKey, cPayload, cFlip, cUnpacked, cDecKey, cOut, meshVars, discVars, batchVars, gwVars, strVars>>

CodecUnpack ==
    /\ cPhase = "packed"
    /\ cUnpacked' = unpackPayload(cBlob)
    /\ cPhase' = "unpacked"
    /\ UNCHANGED <<cPlain, cKey, cPayload, cBlob, cOrigin, cFlip, cDecKey, cOut, meshVars, discVars, batchVars, gwVars, strVars>>

CodecDecrypt ==
    /\ cPhase = "unpacked"
    /\ cUnpacked.ok
    /\ \E k \in Keys :
          /\ cOrigin = "flipped" => k = cKey
          /\ cDecKey' = k
          /\ cOut' = decrypt(cUnpacked.payload, k)
    /\ cPhase' = "done"
    /\ UNCHANGED <<cPlain, cKey, cPayload, cBlob, cOrigin, cFlip, cUnpacked, meshVars, discVars, batchVars, gwVars, strVars>>

CodecNext ==
    \/ CodecEncrypt
    \/ CodecPack
    \/ CodecFlipBit
    \/ CodecForeign
    \/ CodecUnpack
    \/ CodecDecrypt

-----------------------------------------------------------------------------
(* ipfs.ts and mesh.ts: AgentMesh.store / AgentMesh.retrieve over the      *)
(* content store. A call is issued (the synchronous part up to the fetch)  *)
(* and completes when the node answers (the rest of the handler).          *)

Meshes == {"m1", "m2"}

\* what MeshConfig.encryptionKey is set to
MeshKeyConfigs == {Str(PassPw), Buf(deriveKey(PassPw)), Buf(KeyB)}

T_type == <<116, 121, 112, 101>>
T_content == <<99, 111, 110, 116, 101, 110, 116>>
T_timestamp == <<116, 105, 109, 101, 115, 116, 97, 109, 112>>
T_metadata == <<109, 101, 116, 97, 100, 97, 116, 97>>

\* {type: "fact", content: "X", timestamp: 1000}
MemFact ==
    JObj(<< <<T_type, JStr(<<102, 97, 99, 116>>)>>,
            <<T_content, JStr(<<88>>)>>,
            <<T_timestamp, JInt(1000)>> >>)

\* {type: "pref", content: 'a"\<LF>é€', timestamp: 0,
\*  metadata: {source: "c", confidence: 0.95, tags: ["n", null, true, -5],
\*             n: {ok: false}}}
MemRich ==
    JObj(<< <<T_type, JStr(<<112, 114, 101, 102>>)>>,
            <<T_content, JStr(<<97, 34, 92, 10, 233, 8364>>)>>,
            <<T_timestamp, JInt(0)>>,
            <<T_metadata,
              JObj(<< <<(<<115, 111, 117, 114, 99, 101>>), JStr(<<99>>)>>,
                      <<(<<99, 111, 110, 102, 105, 100, 101, 110, 99, 101>>),
                        JNum(FALSE, 0, <<9, 5>>)>>,
                      <<(<<116, 97, 103, 115>>),
                        JArr(<<JStr(<<110>>), JNull, JBool(TRUE), JInt(0 - 5)>>)>>,
                      <<(<<110>>), JObj(<< <<(<<111, 107>>), JBool(FALSE)>> >>)>> >>)>> >>)

\* {timestamp: 1700000000, metadata: {}, content: "", type: "task"}
MemReordered ==
    JObj(<< <<T_timestamp, JInt(1700000000)>>,
            <<T_metadata, JObj(<<>>)>>,
            <<T_content, JStr(<<>>)>>,
            <<T_type, JStr(<<116, 97, 115, 107>>)>> >>)

Memories == {MemFact, MemRich, MemReordered}

\* blobs other producers put into the node: an undersized one and one that
\* is long enough but was sealed with no key of ours
ForeignStoreBlobs ==
    {[i \in 1..27 |-> (5 * i) % 256], [i \in 1..40 |-> (3 * i + 1) % 256]}

\* texts sealed with the sync crypto API under the passphrase, packed and
\* added to the node by a holder of the passphrase other than store():
\* `42`, which is JSON but no record, and `{"a"`, which is not JSON
SealedTexts == {<<52, 50>>, <<123, 34, 97, 34>>}

SealedBlobs ==
    {packPayload(encrypt(Str(t), Str(PassPw), [i \in 1..IV_LENGTH |-> 0]).payload) :
        t \in SealedTexts}

NoCall ==
    [op |-> "none", mesh |-> "m1", state |-> "idle", stage |-> "none", err |-> "none",
     memory |-> JNull, blob |-> <<>>, cid |-> 0, size |-> 0, out |-> JNull]

\* the index of blob b in store st, 0 when absent
CidOf(st, b) ==
    IF \E i \in 1..Len(st) : st[i] = b
    THEN CHOOSE i \in 1..Len(st) : st[i] = b
    ELSE 0

\* the Size figure of the node's answer to add: the byte count of the
\* object it made of the blob, i.e. the blob alone or the blob in its wrapper
SizeReports(b) == {Len(b), Len(b) + 8}

\* AgentMesh.store up to `await this.ipfs.add(packed)`: serialize, encrypt
\* with this.key, pack
StorePrepare(memory, key, iv) ==
    LET json == JsonStringify(memory)
        encrypted == encrypt(Str(json), Buf(key), iv)
    IN  IF ~encrypted.ok
        THEN [ok |-> FALSE, err |-> encrypted.err, blob |-> <<>>]
        ELSE [ok |-> TRUE, err |-> "none", blob |-> packPayload(encrypted.payload)]

\* AgentMesh.retrieve after `await this.ipfs.cat(cid)` returned packed:
\* unpack, decrypt with this.key, parse
RetrieveOpen(packed, key) ==
    LET encrypted == unpackPayload(packed)
        decrypted == decrypt(encrypted.payload, Buf(key))
        parsed == JsonParse(Utf8Decode(decrypted.data))
    IN  IF ~encrypted.ok
        THEN [ok |-> FALSE, stage |-> "unpack", err |-> encrypted.err, out |-> JNull]
        ELSE IF ~decrypted.ok
        THEN [ok |-> FALSE, stage |-> "decrypt", err |-> decrypted.err, out |-> JNull]
        ELSE IF ~parsed.ok
        THEN [ok |-> FALSE, stage |-> "parse", err |-> parsed.err, out |-> JNull]
        ELSE [ok |-> TRUE, stage |-> "done", err |-> "none", out |-> parsed.v]

\* the two handlers tabulated over the inputs of the model
KeyBuffers == {KeyBuffer(c) : c \in MeshKeyConfigs}

StorePrepared ==
    [memory \in Memories, key \in KeyBuffers, iv \in IVs |->
        StorePrepare(memory, key, iv)]

StorableBlobs ==
    {StorePrepared[x].blob : x \in DOMAIN StorePrepared} \cup ForeignStoreBlobs
        \cup SealedBlobs

RetrieveOpened ==
    [packed \in StorableBlobs, key \in KeyBuffers |-> RetrieveOpen(packed, key)]

StoreIssue(m, memory, iv) ==
    LET prepared == StorePrepared[memory, meshKey[m], iv]
    IN  IF ~prepared.ok
        THEN [NoCall EXCEPT !.op = "store", !.mesh = m, !.memory = memory,
                            !.state = "error", !.stage = "encrypt",
                            !.err = prepared.err]
        ELSE [NoCall EXCEPT !.op = "store", !.mesh = m, !.memory = memory,
                            !.state = "pending", !.stage = "add",
                            !.blob = prepared.blob]

RetrieveFinish(c, packed) ==
    LET opened == RetrieveOpened[packed, meshKey[c.mesh]]
    IN  [c EXCEPT !.state = IF opened.ok THEN "ok" ELSE "error",
                  !.stage = opened.stage, !.err = opened.err, !.out = opened.out]

MeshOff ==
    /\ meshConfig = [m \in Meshes |-> Buf(<<>>)]
    /\ meshKey = [m \in Meshes |-> <<>>]
    /\ ipfsStore = <<>>
    /\ ipfsOrigin = <<>>
    /\ call = NoCall

\* new AgentMesh(config), once per instance
MeshInit ==
    /\ meshConfig \in {c \in [Meshes -> MeshKeyConfigs] : c["m1"] = Str(PassPw)}
    /\ meshKey = [m \in Meshes |-> KeyBuffer(meshConfig[m])]
    /\ ipfsStore = <<>>
    /\ ipfsOrigin = <<>>
    /\ call = NoCall

Store ==
    /\ call.state # "pending"
    /\ \E m \in Meshes, memory \in Memories, iv \in IVs :
          call' = StoreIssue(m, memory, iv)
    /\ UNCHANGED <<meshConfig, meshKey, ipfsStore, ipfsOrigin, codecVars, discVars, batchVars, gwVars, strVars>>

\* the node answers add with 200: IPFSClient.add returns, store returns
IpfsAddOk ==
    /\ call.op = "store" /\ call.state = "pending"
    /\ LET known == CidOf(ipfsStore, call.blob)
           cid == IF known # 0 THEN known ELSE Len(ipfsStore) + 1
       IN  /\ known # 0 \/ Len(ipfsStore) < MaxStored
           /\ ipfsStore' = IF known # 0 THEN ipfsStore ELSE Append(ipfsStore, call.blob)
           /\ ipfsOrigin' =
                IF known # 0 THEN ipfsOrigin
                ELSE Append(ipfsOrigin, [foreign |-> FALSE, key |-> meshKey[call.mesh],
                                         memory |-> call.memory])
           /\ \E size \in SizeReports(call.blob) :
                call' = [call EXCEPT !.state = "ok", !.stage = "done",
                                     !.cid = cid, !.size = size]
    /\ UNCHANGED <<meshConfig, meshKey, codecVars, discVars, batchVars, gwVars, strVars>>

\* the node answers add with a non-2xx status, or the fetch rejects (the
\* timeout signal aborts it; an unreachable node takes the same path):
\* IPFSClient.add throws
IpfsAddFail ==
    /\ call.op = "store" /\ call.state = "pending"
    /\ \E e \in {"HttpError", "TimeoutError"} :
          call' = [call EXCEPT !.state = "error", !.err = e]
    /\ UNCHANGED <<meshConfig, meshKey, ipfsStore, ipfsOrigin, codecVars, discVars, batchVars, gwVars, strVars>>

Retrieve ==
    /\ call.state # "pending"
    /\ \E m \in Meshes, cid \in 1..MaxStored :
          call' = [NoCall EXCEPT !.op = "retrieve", !.mesh = m, !.cid = cid,
                                 !.state = "pending", !.stage = "cat"]
    /\ UNCHANGED <<meshConfig, meshKey, ipfsStore, ipfsOrigin, codecVars, discVars, batchVars, gwVars, strVars>>

\* the node answers cat with 200 and the blob: IPFSClient.cat returns and
\* retrieve runs to its end
IpfsCatOk ==
    /\ call.op = "retrieve" /\ call.state = "pending"
    /\ call.cid <= Len(ipfsStore)
    /\ call' = RetrieveFinish(call, ipfsStore[call.cid])
    /\ UNCHANGED <<meshConfig, meshKey, ipfsStore, ipfsOrigin, codecVars, discVars, batchVars, gwVars, strVars>>

\* the node answers cat with a non-2xx status (as it does for a CID it does
\* not have), or the fetch rejects: IPFSClient.cat throws
IpfsCatFail ==
    /\ call.op = "retrieve" /\ call.state = "pending"
    /\ \E e \in {"HttpError", "TimeoutError"} :
          /\ call.cid > Len(ipfsStore) => e = "HttpError"
          /\ call' = [call EXCEPT !.state = "error", !.err = e]
    /\ UNCHANGED <<meshConfig, meshKey, ipfsStore, ipfsOrigin, codecVars, discVars, batchVars, gwVars, strVars>>

\* another producer adds a blob to the node
ForeignPut ==
    /\ Len(ipfsStore) < MaxStored
    /\ \E b \in ForeignStoreBlobs \cup SealedBlobs :
          /\ CidOf(ipfsStore, b) = 0
          /\ ipfsStore' = Append(ipfsStore, b)
          /\ ipfsOrigin' = Append(ipfsOrigin, [foreign |-> TRUE, key |-> <<>>,
                                               memory |-> JNull])
    /\ UNCHANGED <<meshConfig, meshKey, call, codecVars, discVars, batchVars, gwVars, strVars>>

MeshNext ==
    \/ Store
    \/ IpfsAddOk
    \/ IpfsAddFail
    \/ Retrieve
    \/ IpfsCatOk
    \/ IpfsCatFail
    \/ ForeignPut

-----------------------------------------------------------------------------
(* mesh.ts: storeBatch / retrieveBatch. Promise.all over one store or       *)
(* retrieve per element: every element call is started at once, the batch   *)
(* rejects with the first element that rejects and resolves, in input       *)
(* order, once every element has resolved. Element calls go on after the    *)
(* batch has rejected.                                                      *)

\* the memory lists storeBatch is called with
BatchMemories ==
    {<<>>, <<MemFact>>, <<MemFact, MemReordered>>, <<MemReordered, MemFact>>,
     <<MemFact, MemFact>>}

\* values randomBytes(IV_LENGTH) returns in the element calls of a batch
BatchIVs == {[i \in 1..IV_LENGTH |-> 0]}

\* the CID lists retrieveBatch is called with
BatchCids ==
    {<<>>} \cup {<<a>> : a \in 1..MaxStored}
           \cup {<<a, b>> : a \in 1..MaxStored, b \in 1..MaxStored}

NoBatch ==
    [op |-> "none", mesh |-> "m1", input |-> <<>>, elems |-> <<>>, order |-> <<>>,
     state |-> "idle", err |-> "none", errAt |-> 0, out |-> <<>>]

\* what an element call resolved with: a StoreResult or a Memory
ElemResult(c) ==
    IF c.op = "store" THEN [cid |-> c.cid, size |-> c.size, memory |-> JNull]
    ELSE [cid |-> c.cid, size |-> 0, memory |-> c.out]

Rejected(elems) == {i \in 1..Len(elems) : elems[i].state = "error"}

Min(S) == CHOOSE x \in S : \A y \in S : x <= y

\* mutant of Settle: the results are collected in the order in which the
\* element calls completed
Settle_completionOrder(b) ==
    IF b.state # "pending" THEN b
    ELSE IF Rejected(b.elems) # {}
    THEN [b EXCEPT !.state = "error", !.errAt = Min(Rejected(b.elems)),
                   !.err = b.elems[Min(Rejected(b.elems))].err]
    ELSE IF \A i \in 1..Len(b.elems) : b.elems[i].state = "ok"
    THEN [b EXCEPT !.state = "ok",
                   !.out = [k \in 1..Len(b.elems) |-> ElemResult(b.elems[b.order[k]])]]
    ELSE b

\* mutant of Settle: waits for every element and resolves with the results of
\* the elements that resolved
Settle_dropFailed(b) ==
    IF b.state # "pending" THEN b
    ELSE IF \E i \in 1..Len(b.elems) : b.elems[i].state = "pending" THEN b
    ELSE [b EXCEPT !.state = "ok",
                   !.out = [k \in 1..Len(SelectSeq(b.elems, LAMBDA c : c.state = "ok")) |->
                               ElemResult(SelectSeq(b.elems, LAMBDA c : c.state = "ok")[k])]]

\* Promise.all: the batch after an element call has settled
Settle(b) ==
    IF b.state # "pending" THEN b
    ELSE IF Rejected(b.elems) # {}
    THEN [b EXCEPT !.state = "error", !.errAt = Min(Rejected(b.elems)),
                   !.err = b.elems[Min(Rejected(b.elems))].err]
    ELSE IF \A i \in 1..Len(b.elems) : b.elems[i].state = "ok"
    THEN [b EXCEPT !.state = "ok",
                   !.out = [i \in 1..Len(b.elems) |-> ElemResult(b.elems[i])]]
    ELSE b

ElemsSettled(b) == \A i \in 1..Len(b.elems) : b.elems[i].state # "pending"

BatchOff == batch = NoBatch

\* storeBatch(memories): memories.map(m => this.store(m)) starts every store
StoreBatch ==
    /\ ElemsSettled(batch)
    /\ \E m \in Meshes, memories \in BatchMemories :
          \E ivs \in [1..Len(memories) -> BatchIVs] :
              batch' = Settle([NoBatch EXCEPT
                          !.op = "storeBatch", !.mesh = m, !.state = "pending",
                          !.input = memories,
                          !.elems = [i \in 1..Len(memories) |->
                                        StoreIssue(m, memories[i], ivs[i])]])
    /\ UNCHANGED <<meshVars, codecVars, discVars, gwVars, strVars>>

\* the node answers the add of element i with 200
BatchAddOk ==
    /\ \E i \in 1..Len(batch.elems) :
          LET c == batch.elems[i]
              known == CidOf(ipfsStore, c.blob)
              cid == IF known # 0 THEN known ELSE Len(ipfsStore) + 1
          IN  /\ c.op = "store" /\ c.state = "pending"
              /\ known # 0 \/ Len(ipfsStore) < MaxStored
              /\ ipfsStore' = IF known # 0 THEN ipfsStore ELSE Append(ipfsStore, c.blob)
              /\ ipfsOrigin' =
                    IF known # 0 THEN ipfsOrigin
                    ELSE Append(ipfsOrigin, [foreign |-> FALSE, key |-> meshKey[c.mesh],
                                             memory |-> c.memory])
              /\ \E size \in SizeReports(c.blob) :
                    batch' = Settle([batch EXCEPT !.order = Append(@, i), !.elems[i] =
                                [c EXCEPT !.state = "ok", !.stage = "done",
                                          !.cid = cid, !.size = size]])
    /\ UNCHANGED <<meshConfig, meshKey, call, codecVars, discVars, gwVars, strVars>>

\* mutant of BatchAddFail: the failure of an element takes back the blob
\* the batch stored last
BatchAddFail_rollback ==
    /\ \E i \in 1..Len(batch.elems), e \in {"HttpError", "TimeoutError"} :
          LET c == batch.elems[i]
              last == Len(ipfsStore)
              mine == \E k \in 1..Len(batch.elems) :
                          batch.elems[k].state = "ok" /\ batch.elems[k].cid = last
          IN  /\ c.op = "store" /\ c.state = "pending"
              /\ batch' = Settle([batch EXCEPT !.order = Append(@, i), !.elems[i] =
                                    [c EXCEPT !.state = "error", !.err = e]])
              /\ ipfsStore' = IF mine THEN SubSeq(ipfsStore, 1, last - 1) ELSE ipfsStore
              /\ ipfsOrigin' = IF mine THEN SubSeq(ipfsOrigin, 1, last - 1) ELSE ipfsOrigin
    /\ UNCHANGED <<meshConfig, meshKey, call, codecVars, discVars, gwVars, strVars>>

\* the node answers the add of element i with a non-2xx status, or the
\* fetch rejects
BatchAddFail ==
    /\ \E i \in 1..Len(batch.elems), e \in {"HttpError", "TimeoutError"} :
          LET c == batch.elems[i]
          IN  /\ c.op = "store" /\ c.state = "pending"
              /\ batch' = Settle([batch EXCEPT !.order = Append(@, i), !.elems[i] =
                                    [c EXCEPT !.state = "error", !.err = e]])
    /\ UNCHANGED <<meshVars, codecVars, discVars, gwVars, strVars>>

\* retrieveBatch(cids): cids.map(cid => this.retrieve(cid)) starts every
\* retrieve
RetrieveBatch ==
    /\ ElemsSettled(batch)
    /\ \E m \in Meshes, cids \in BatchCids :
          batch' = Settle([NoBatch EXCEPT
                      !.op = "retrieveBatch", !.mesh = m, !.state = "pending",
                      !.input = cids,
                      !.elems = [i \in 1..Len(cids) |->
                                    [NoCall EXCEPT !.op = "retrieve", !.mesh = m,
                                                   !.cid = cids[i],
                                                   !.state = "pending",
                                                   !.stage = "cat"]]])
    /\ UNCHANGED <<meshVars, codecVars, discVars, gwVars, strVars>>

\* the node answers the cat of element i with 200 and the blob
BatchCatOk ==
    /\ \E i \in 1..Len(batch.elems) :
          LET c == batch.elems[i]
          IN  /\ c.op = "retrieve" /\ c.state = "pending"
              /\ c.cid <= Len(ipfsStore)
              /\ batch' = Settle([batch EXCEPT !.order = Append(@, i), !.elems[i] =
                                    RetrieveFinish(c, ipfsStore[c.cid])])
    /\ UNCHANGED <<meshVars, codecVars, discVars, gwVars, strVars>>

\* the node answers the cat of element i with a non-2xx status, or the
\* fetch rejects
BatchCatFail ==
    /\ \E i \in 1..Len(batch.elems), e \in {"HttpError", "TimeoutError"} :
          LET c == batch.elems[i]
          IN  /\ c.op = "retrieve" /\ c.state = "pending"
              /\ c.cid > Len(ipfsStore) => e = "HttpError"
              /\ batch' = Settle([batch EXCEPT !.order = Append(@, i), !.elems[i] =
                                    [c EXCEPT !.state = "error", !.err = e]])
    /\ UNCHANGED <<meshVars, codecVars, discVars, gwVars, strVars>>

BatchNext ==
    \/ StoreBatch
    \/ BatchAddOk
    \/ BatchAddFail
    \/ RetrieveBatch
    \/ BatchCatOk
    \/ BatchCatFail

-----------------------------------------------------------------------------
(* discovery.ts: MeshDiscovery. A call is issued and then continues each   *)
(* time the node answers the request it awaits; an instance has one call   *)
(* in flight at a time, addBootstrapPeer (synchronous) may run in between. *)
(* The lastSeen stamps (Date.now()) are left out.                          *)

Discs == {"d1", "d2"}
PeerIds == {"A", "B", "C", "D"}

\* a multiaddr: it names the peer it leads to
Addr(p, n) == [peer |-> p, n |-> n]
\* `/p2p/${peer.peerId}`
P2pAddr(p) == Addr(p, 0)
\* the address the node reports for its connection to p
LiveAddr(p) == Addr(p, 9)

\* a PeerInfo with and without the optional multiaddrs
Peer(id, name, addrs) ==
    [peerId |-> id, agentName |-> name, hasAddrs |-> TRUE, multiaddrs |-> addrs]
PeerNoAddrs(id, name) ==
    [peerId |-> id, agentName |-> name, hasAddrs |-> FALSE, multiaddrs |-> <<>>]

\* the arrays a bootstrap list can be: BOOTSTRAP_PEERS and two lists a
\* caller passes as config.bootstrapPeers
ListRefs == {"BOOTSTRAP_PEERS", "cfgBD", "cfgDup"}

InitialList(ref) ==
    IF ref = "BOOTSTRAP_PEERS" THEN
        <<Peer("B", "draxdevAI", <<Addr("B", 1), Addr("B", 2)>>)>>
    ELSE IF ref = "cfgBD" THEN
        <<Peer("B", "b", <<Addr("B", 1), Addr("B", 2)>>), PeerNoAddrs("D", "none")>>
    ELSE
        <<Peer("A", "a", <<Addr("A", 1)>>), Peer("C", "c", <<>>),
          Peer("A", "a2", <<Addr("A", 2)>>), Peer("B", "b", <<Addr("B", 1)>>)>>

\* what addBootstrapPeer is called with: peers with one address, and one
\* whose address list is present and empty
AddablePeers ==
    {Peer(p, "late", <<Addr(p, 3)>>) : p \in {"B", "D"}} \cup {Peer("C", "late", <<>>)}

SelfIds == {"A", "D"}

\* how the node answers a request: 200 with a JSON body, a non-2xx status,
\* no answer (the fetch rejects: timeout signal, unreachable node), or 200
\* with a body that is not JSON
Outcomes == {"ok", "nonok", "reject", "badjson"}

NoOp ==
    [kind |-> "none", pc |-> "idle", self |-> "none", i |-> 0, j |-> 0, n |-> 0,
     atCall |-> 0,
     connected |-> 0, failed |-> 0, skipped |-> 0, log |-> <<>>, last |-> "none",
     argPeer |-> "none", argAddr |-> Addr("none", 0),
     report |-> <<>>, result |-> <<>>, value |-> FALSE, err |-> "none"]

InFlight(op) == op.pc \in {"id", "connect", "fetch"}

\* this.bootstrapPeers of instance d
BootstrapPeers(d) == bootList[bootRef[d]]

\* swarm with peer p connected / disconnected
Joined(sw, p) == IF p \in Range(sw) THEN sw ELSE Append(sw, p)
Dropped(sw, p) == SelectSeq(sw, LAMBDA q : q # p)

\* connectedPeers.set(peer.peerId, {...peer})
MapSet(map, peer) == (peer.peerId :> peer) @@ map

\* mutant of connect: no try/catch around the fetch
connect_uncaught(outcome) ==
    [thrown |-> outcome \in {"reject", "badjson"}, value |-> outcome = "ok",
     outcome |-> outcome]

\* MeshDiscovery.connect, given how the node answers swarm/connect
connect(outcome) ==
    [thrown |-> FALSE, value |-> outcome = "ok", outcome |-> outcome]

\* mutant of Addresses: an empty address list falls back to the peer id too
Addresses_emptyFallsBack(peer) ==
    IF peer.hasAddrs /\ Len(peer.multiaddrs) > 0 THEN peer.multiaddrs
    ELSE <<P2pAddr(peer.peerId)>>

\* peer.multiaddrs || [`/p2p/${peer.peerId}`]
Addresses(peer) == IF peer.hasAddrs THEN peer.multiaddrs ELSE <<P2pAddr(peer.peerId)>>

\* bootstrap calls connect(addresses[j]) for entry i and awaits it
Attempt(b, list, i, j) ==
    [b EXCEPT !.pc = "connect", !.i = i, !.j = j,
              !.log = Append(@, [entry |-> i, j |-> j,
                                 addr |-> Addresses(list[i])[j],
                                 result |-> "pending"])]

RECURSIVE BootAdvance_noSelfSkip(_, _, _)
\* mutant of BootAdvance: the self check is missing
BootAdvance_noSelfSkip(b, list, i) ==
    IF i > Len(list) THEN [b EXCEPT !.pc = "done", !.i = 0, !.j = 0, !.n = Len(list)]
    ELSE IF Len(Addresses(list[i])) = 0 THEN
        BootAdvance_noSelfSkip([b EXCEPT !.failed = @ + 1], list, i + 1)
    ELSE Attempt(b, list, i, 1)

RECURSIVE BootAdvance_emptyUncounted(_, _, _)
\* mutant of BootAdvance: failed is counted inside the address loop, so an
\* entry with an empty address list is not counted at all
BootAdvance_emptyUncounted(b, list, i) ==
    IF i > Len(list) THEN [b EXCEPT !.pc = "done", !.i = 0, !.j = 0, !.n = Len(list)]
    ELSE IF list[i].peerId = b.self THEN
        BootAdvance_emptyUncounted([b EXCEPT !.skipped = @ + 1], list, i + 1)
    ELSE IF Len(Addresses(list[i])) = 0 THEN
        BootAdvance_emptyUncounted(b, list, i + 1)
    ELSE Attempt(b, list, i, 1)

RECURSIVE BootAdvance(_, _, _)
\* bootstrap's for loop from entry i on, up to its next await or its return
BootAdvance(b, list, i) ==
    IF i > Len(list) THEN [b EXCEPT !.pc = "done", !.i = 0, !.j = 0, !.n = Len(list)]
    ELSE IF list[i].peerId = b.self THEN
        BootAdvance([b EXCEPT !.skipped = @ + 1], list, i + 1)
    ELSE IF Len(Addresses(list[i])) = 0 THEN
        BootAdvance([b EXCEPT !.failed = @ + 1], list, i + 1)
    ELSE Attempt(b, list, i, 1)

\* b with the outcome of the pending attempt written to the log
Logged(b, r) ==
    [b EXCEPT !.last = r.outcome,
              !.log[Len(b.log)].result =
                  IF r.thrown THEN "thrown" ELSE IF r.value THEN "true" ELSE "false"]

\* mutant of BootAfterConnect: no break after the address that succeeded
BootAfterConnect_noBreak(b, list, r) ==
    IF r.thrown THEN [Logged(b, r) EXCEPT !.pc = "thrown", !.err = "connect"]
    ELSE IF b.j < Len(Addresses(list[b.i])) THEN Attempt(Logged(b, r), list, b.i, b.j + 1)
    ELSE IF r.value THEN
        BootAdvance([Logged(b, r) EXCEPT !.connected = @ + 1], list, b.i + 1)
    ELSE BootAdvance([Logged(b, r) EXCEPT !.failed = @ + 1], list, b.i + 1)

\* bootstrap after `await this.connect(addr)` returned r
BootAfterConnect(b, list, r) ==
    IF r.thrown THEN [Logged(b, r) EXCEPT !.pc = "thrown", !.err = "connect"]
    ELSE IF r.value THEN
        BootAdvance([Logged(b, r) EXCEPT !.connected = @ + 1], list, b.i + 1)
    ELSE IF b.j < Len(Addresses(list[b.i])) THEN Attempt(Logged(b, r), list, b.i, b.j + 1)
    ELSE BootAdvance([Logged(b, r) EXCEPT !.failed = @ + 1], list, b.i + 1)

\* the first bootstrap entry with peer id p, 0 when there is none
FindBoot(list, p) ==
    IF \E i \in 1..Len(list) : list[i].peerId = p
    THEN CHOOSE i \in 1..Len(list) :
            list[i].peerId = p /\ \A k \in 1..(i - 1) : list[k].peerId # p
    ELSE 0

\* {...p, ...known}: known's fields win, a field known lacks stays p's
Merge(p, known) ==
    [peerId |-> known.peerId,
     agentName |-> known.agentName,
     hasAddrs |-> TRUE,
     multiaddrs |-> IF known.hasAddrs THEN known.multiaddrs ELSE p.multiaddrs]

\* mutant of peers: the peers of the connected map that the node does not
\* report are listed after the reported ones
peers_keepConnected(outcome, report, map, list) ==
    LET stale == SelectSeq(<<"A", "B", "C", "D">>,
                           LAMBDA p : p \in DOMAIN map /\ p \notin Range(report))
        all == report \o stale
    IN  IF outcome # "ok" THEN <<>>
        ELSE [k \in 1..Len(all) |->
                LET p == [peerId |-> all[k], agentName |-> "none", hasAddrs |-> TRUE,
                          multiaddrs |-> <<LiveAddr(all[k])>>]
                IN  IF p.peerId \in DOMAIN map THEN Merge(p, map[p.peerId])
                    ELSE IF FindBoot(list, p.peerId) # 0
                    THEN Merge(p, list[FindBoot(list, p.peerId)])
                    ELSE p]

\* mutant of peers: the bootstrap list is looked up before the connected map
peers_bootstrapFirst(outcome, report, map, list) ==
    IF outcome # "ok" THEN <<>>
    ELSE [k \in 1..Len(report) |->
            LET p == [peerId |-> report[k], agentName |-> "none", hasAddrs |-> TRUE,
                      multiaddrs |-> <<LiveAddr(report[k])>>]
            IN  IF FindBoot(list, p.peerId) # 0
                THEN Merge(p, list[FindBoot(list, p.peerId)])
                ELSE IF p.peerId \in DOMAIN map THEN Merge(p, map[p.peerId])
                ELSE p]

\* peers(): the node's answer mapped to PeerInfo and enriched; [] on failure
peers(outcome, report, map, list) ==
    IF outcome # "ok" THEN <<>>
    ELSE [k \in 1..Len(report) |->
            LET p == [peerId |-> report[k], agentName |-> "none", hasAddrs |-> TRUE,
                      multiaddrs |-> <<LiveAddr(report[k])>>]
            IN  IF p.peerId \in DOMAIN map THEN Merge(p, map[p.peerId])
                ELSE IF FindBoot(list, p.peerId) # 0
                THEN Merge(p, list[FindBoot(list, p.peerId)])
                ELSE p]

\* mutant of findMeshPeers: filters by the connected map, not the bootstrap list
findMeshPeers_byMap(connected, map, list) ==
    SelectSeq(connected, LAMBDA p : p.peerId \in DOMAIN map)

\* findMeshPeers() after `await this.peers()` returned connected
findMeshPeers(connected, map, list) ==
    SelectSeq(connected, LAMBDA p : \E i \in 1..Len(list) : list[i].peerId = p.peerId)

\* isConnected(peerId) after `await this.peers()` returned connected
isConnected(connected, peerId) == \E k \in 1..Len(connected) : connected[k].peerId = peerId

DiscoveryOff ==
    /\ instances = {}
    /\ selfId = "none"
    /\ swarm = <<>>
    /\ bootRef = [d \in Discs |-> "BOOTSTRAP_PEERS"]
    /\ bootList = [r \in ListRefs |-> <<>>]
    /\ connectedPeers = [d \in Discs |-> <<>>]
    /\ dop = [d \in Discs |-> NoOp]

\* new MeshDiscovery(config), for one instance over the node:
\* this.bootstrapPeers = config.bootstrapPeers || BOOTSTRAP_PEERS
DiscoveryInit ==
    /\ instances = {"d1"}
    /\ selfId \in SelfIds
    /\ swarm = <<>>
    /\ bootRef \in [Discs -> ListRefs]
    /\ \A d \in Discs \ instances : bootRef[d] = "BOOTSTRAP_PEERS"
    /\ bootList = [r \in ListRefs |-> InitialList(r)]
    /\ connectedPeers = [d \in Discs |-> <<>>]
    /\ dop = [d \in Discs |-> NoOp]

\* a peer connects to the node, or a connection of the node closes
SwarmJoin ==
    /\ \E p \in PeerIds \ ({selfId} \cup Range(swarm)) : swarm' = Joined(swarm, p)
    /\ UNCHANGED <<instances, selfId, bootRef, bootList, connectedPeers, dop, codecVars, meshVars, batchVars, gwVars, strVars>>

SwarmDrop ==
    /\ \E p \in Range(swarm) : swarm' = Dropped(swarm, p)
    /\ UNCHANGED <<instances, selfId, bootRef, bootList, connectedPeers, dop, codecVars, meshVars, batchVars, gwVars, strVars>>

\* mutant of addBootstrapPeer: the peer is pushed without the some() check
addBootstrapPeer_noDedup(d, peer) ==
    /\ Len(BootstrapPeers(d)) < MaxBootLen
    /\ bootList' = [bootList EXCEPT ![bootRef[d]] = Append(@, peer)]

\* addBootstrapPeer(peer) on instance d
addBootstrapPeer(d, peer) ==
    LET list == BootstrapPeers(d)
    IN  /\ Len(list) < MaxBootLen
        /\ bootList' =
              IF \E i \in 1..Len(list) : list[i].peerId = peer.peerId
              THEN bootList
              ELSE [bootList EXCEPT ![bootRef[d]] = Append(@, peer)]

AddBootstrapPeer ==
    /\ \E d \in instances, peer \in AddablePeers : addBootstrapPeer(d, peer)
    /\ UNCHANGED <<instances, selfId, swarm, bootRef, connectedPeers, dop, codecVars, meshVars, batchVars, gwVars, strVars>>

\* connect(peerIdOrAddr) called by the user
ConnectCall ==
    /\ \E d \in instances, p \in PeerIds \ {selfId} :
          /\ ~InFlight(dop[d])
          /\ dop' = [dop EXCEPT ![d] =
                        [NoOp EXCEPT !.kind = "connect", !.pc = "fetch",
                                     !.argAddr = P2pAddr(p)]]
    /\ UNCHANGED <<instances, selfId, swarm, bootRef, bootList, connectedPeers, codecVars, meshVars, batchVars, gwVars, strVars>>

ConnectAnswer ==
    /\ \E d \in instances, outcome \in Outcomes :
          LET r == connect(outcome)
          IN  /\ dop[d].kind = "connect" /\ dop[d].pc = "fetch"
              /\ dop' = [dop EXCEPT ![d] =
                            [@ EXCEPT !.pc = IF r.thrown THEN "thrown" ELSE "done",
                                      !.last = outcome, !.value = r.value]]
              /\ swarm' = IF outcome = "ok" THEN Joined(swarm, dop[d].argAddr.peer)
                          ELSE swarm
    /\ UNCHANGED <<instances, selfId, bootRef, bootList, connectedPeers, codecVars, meshVars, batchVars, gwVars, strVars>>

BootstrapCall ==
    /\ \E d \in instances :
          /\ ~InFlight(dop[d])
          /\ dop' = [dop EXCEPT ![d] =
                        [NoOp EXCEPT !.kind = "bootstrap", !.pc = "id",
                                     !.atCall = Len(BootstrapPeers(d))]]
    /\ UNCHANGED <<instances, selfId, swarm, bootRef, bootList, connectedPeers, codecVars, meshVars, batchVars, gwVars, strVars>>

\* `await this.ipfs.id()` returns: the loop runs up to its first connect
BootstrapIdOk ==
    /\ \E d \in instances :
          /\ dop[d].kind = "bootstrap" /\ dop[d].pc = "id"
          /\ dop' = [dop EXCEPT ![d] =
                        BootAdvance([@ EXCEPT !.self = selfId], BootstrapPeers(d), 1)]
    /\ UNCHANGED <<instances, selfId, swarm, bootRef, bootList, connectedPeers, codecVars, meshVars, batchVars, gwVars, strVars>>

\* IPFSClient.id throws (non-2xx status, or the fetch rejects): nothing in
\* bootstrap catches it
BootstrapIdFail ==
    /\ \E d \in instances, e \in {"HttpError", "TimeoutError"} :
          /\ dop[d].kind = "bootstrap" /\ dop[d].pc = "id"
          /\ dop' = [dop EXCEPT ![d] = [@ EXCEPT !.pc = "thrown", !.err = e]]
    /\ UNCHANGED <<instances, selfId, swarm, bootRef, bootList, connectedPeers, codecVars, meshVars, batchVars, gwVars, strVars>>

\* the connect bootstrap awaits returns: the map is set on success and the
\* loop runs on to its next connect or to its return
BootstrapConnectAnswer ==
    /\ \E d \in instances, outcome \in Outcomes :
          LET b == dop[d]
              list == BootstrapPeers(d)
              r == connect(outcome)
          IN  /\ b.kind = "bootstrap" /\ b.pc = "connect"
              /\ dop' = [dop EXCEPT ![d] = BootAfterConnect(b, list, r)]
              /\ connectedPeers' =
                    IF r.value /\ ~r.thrown
                    THEN [connectedPeers EXCEPT ![d] = MapSet(@, list[b.i])]
                    ELSE connectedPeers
              /\ swarm' = IF outcome = "ok" THEN Joined(swarm, b.log[Len(b.log)].addr.peer)
                          ELSE swarm
    /\ UNCHANGED <<instances, selfId, bootRef, bootList, codecVars, meshVars, batchVars, gwVars, strVars>>

\* peers(), findMeshPeers() or isConnected(peerId) is called: each starts
\* with the swarm/peers request of peers()
QueryCall ==
    /\ \E d \in instances, kind \in {"peers", "findMeshPeers", "isConnected"},
          p \in PeerIds :
          /\ ~InFlight(dop[d])
          /\ kind # "isConnected" => p = "B"
          /\ dop' = [dop EXCEPT ![d] =
                        [NoOp EXCEPT !.kind = kind, !.pc = "fetch",
                                     !.argPeer = IF kind = "isConnected" THEN p ELSE "none"]]
    /\ UNCHANGED <<instances, selfId, swarm, bootRef, bootList, connectedPeers, codecVars, meshVars, batchVars, gwVars, strVars>>

\* mutant of QueryAnswer: peers() also records the reported peers it knows
\* from the bootstrap list in the connected map
QueryAnswer_recordsSeen ==
    /\ \E d \in instances, outcome \in Outcomes :
          LET q == dop[d]
              list == BootstrapPeers(d)
              report == IF outcome = "ok" THEN swarm ELSE <<>>
              connected == peers(outcome, report, connectedPeers[d], list)
              seen == {k \in 1..Len(report) : FindBoot(list, report[k]) # 0}
          IN  /\ q.kind \in {"peers", "findMeshPeers", "isConnected"} /\ q.pc = "fetch"
              /\ dop' = [dop EXCEPT ![d] =
                    [q EXCEPT !.pc = "done", !.last = outcome, !.report = report,
                              !.n = Len(list),
                              !.result =
                                  IF q.kind = "peers" THEN connected
                                  ELSE IF q.kind = "findMeshPeers"
                                  THEN findMeshPeers(connected, connectedPeers[d], list)
                                  ELSE <<>>,
                              !.value =
                                  IF q.kind = "isConnected"
                                  THEN isConnected(connected, q.argPeer)
                                  ELSE FALSE]]
              /\ connectedPeers' =
                    [connectedPeers EXCEPT ![d] =
                        [p \in DOMAIN @ \cup {report[k] : k \in seen} |->
                            IF p \in DOMAIN @ THEN @[p] ELSE list[FindBoot(list, p)]]]
    /\ UNCHANGED <<instances, selfId, swarm, bootRef, bootList, codecVars, meshVars, batchVars, gwVars, strVars>>

\* the node answers swarm/peers: peers() returns and its caller finishes
QueryAnswer ==
    /\ \E d \in instances, outcome \in Outcomes :
          LET q == dop[d]
              list == BootstrapPeers(d)
              report == IF outcome = "ok" THEN swarm ELSE <<>>
              connected == peers(outcome, report, connectedPeers[d], list)
          IN  /\ q.kind \in {"peers", "findMeshPeers", "isConnected"} /\ q.pc = "fetch"
              /\ dop' = [dop EXCEPT ![d] =
                    [q EXCEPT !.pc = "done", !.last = outcome, !.report = report,
                              !.n = Len(list),
                              !.result =
                                  IF q.kind = "peers" THEN connected
                                  ELSE IF q.kind = "findMeshPeers"
                                  THEN findMeshPeers(connected, connectedPeers[d], list)
                                  ELSE <<>>,
                              !.value =
                                  IF q.kind = "isConnected"
                                  THEN isConnected(connected, q.argPeer)
                                  ELSE FALSE]]
    /\ UNCHANGED <<instances, selfId, swarm, bootRef, bootList, connectedPeers, codecVars, meshVars, batchVars, gwVars, strVars>>

\* getSelfInfo() after `await this.ipfs.id()` returned self, given how the
\* node answers the second /api/v0/id request: the status is not looked at,
\* a body without Addresses gives [], a fetch that rejects or a body that is
\* not JSON throws
getSelfInfo(self, outcome) ==
    [thrown |-> outcome \in {"reject", "badjson"},
     info |-> Peer(self, "me", IF outcome = "ok" THEN <<Addr(self, 1)>> ELSE <<>>)]

\* new MeshDiscovery(config) twice in one process, each time with or
\* without a list of its own (no array is passed to both), over a node that
\* holds three connections
InstancesInit ==
    /\ instances = Discs
    /\ selfId = "A"
    /\ swarm = <<"B", "C", "D">>
    /\ bootRef \in [Discs -> ListRefs]
    /\ bootRef["d1"] \in {"BOOTSTRAP_PEERS", "cfgBD"}
    /\ bootRef["d2"] \in {"BOOTSTRAP_PEERS", "cfgDup"}
    /\ bootList = [r \in ListRefs |-> InitialList(r)]
    /\ connectedPeers = [d \in Discs |-> <<>>]
    /\ dop = [d \in Discs |-> NoOp]

InstancesNext ==
    \/ AddBootstrapPeer
    \/ QueryCall
    \/ QueryAnswer

\* getSelfInfo() or announce() is called: both start with ipfs.id()
SelfInfoCall ==
    /\ \E d \in instances, kind \in {"getSelfInfo", "announce"} :
          /\ ~InFlight(dop[d])
          /\ dop' = [dop EXCEPT ![d] = [NoOp EXCEPT !.kind = kind, !.pc = "id"]]
    /\ UNCHANGED <<instances, selfId, swarm, bootRef, bootList, connectedPeers, codecVars, meshVars, batchVars, gwVars, strVars>>

\* `await this.ipfs.id()` of getSelfInfo returns, or throws (nothing in
\* getSelfInfo or announce catches it)
SelfInfoId ==
    /\ \E d \in instances, e \in {"none", "HttpError", "TimeoutError"} :
          /\ dop[d].kind \in {"getSelfInfo", "announce"} /\ dop[d].pc = "id"
          /\ dop' = [dop EXCEPT ![d] =
                        IF e = "none" THEN [@ EXCEPT !.pc = "fetch", !.self = selfId]
                        ELSE [@ EXCEPT !.pc = "thrown", !.err = e]]
    /\ UNCHANGED <<instances, selfId, swarm, bootRef, bootList, connectedPeers, codecVars, meshVars, batchVars, gwVars, strVars>>

\* the node answers the /api/v0/id request of getSelfInfo: getSelfInfo
\* returns, and announce logs and returns what it got
SelfInfoAnswer ==
    /\ \E d \in instances, outcome \in Outcomes :
          LET r == getSelfInfo(dop[d].self, outcome)
          IN  /\ dop[d].kind \in {"getSelfInfo", "announce"} /\ dop[d].pc = "fetch"
              /\ dop' = [dop EXCEPT ![d] =
                            IF r.thrown
                            THEN [@ EXCEPT !.pc = "thrown", !.last = outcome, !.err = "fetch"]
                            ELSE [@ EXCEPT !.pc = "done", !.last = outcome,
                                           !.result = <<r.info>>]]
    /\ UNCHANGED <<instances, selfId, swarm, bootRef, bootList, connectedPeers, codecVars, meshVars, batchVars, gwVars, strVars>>

\* getBootstrapPeers(): a copy of the list, synchronously
GetBootstrapPeers ==
    /\ \E d \in instances :
          /\ ~InFlight(dop[d])
          /\ dop' = [dop EXCEPT ![d] =
                        [NoOp EXCEPT !.kind = "getBootstrapPeers", !.pc = "done",
                                     !.n = Len(BootstrapPeers(d)),
                                     !.result = BootstrapPeers(d)]]
    /\ UNCHANGED <<instances, selfId, swarm, bootRef, bootList, connectedPeers, codecVars, meshVars, batchVars, gwVars, strVars>>

DiscoveryNext ==
    \/ SwarmJoin
    \/ SwarmDrop
    \/ AddBootstrapPeer
    \/ ConnectCall
    \/ ConnectAnswer
    \/ BootstrapCall
    \/ BootstrapIdOk
    \/ BootstrapIdFail
    \/ BootstrapConnectAnswer
    \/ QueryCall
    \/ QueryAnswer
    \/ SelfInfoCall
    \/ SelfInfoId
    \/ SelfInfoAnswer
    \/ GetBootstrapPeers

-----------------------------------------------------------------------------
(* client.ts: AgentMeshClient. Every operation goes through request():     *)
(* the key check, the fetch under an abort timer, the body read, the       *)
(* status check. A call is issued and continues when the response headers  *)
(* arrive and again when the body has arrived. `undefined` is "none" for a *)
(* string, 0 for a status code and NoBody for a response body.             *)

\* the operations whose request() call has auth left at its default, true
AuthOps == {"store", "storeString", "search", "list", "delete", "stats"}
\* the operations that pass auth: false
OpenOps == {"register", "retrieve", "retrieveString", "status", "isOnline"}

\* values of this.apiKey: undefined, the empty string, and keys
ApiKeys == {"none", "", "mesh_old", "mesh_new"}

Statuses == {200, 201, 404, 500}

NoBody == [kind |-> "none", error |-> "none", apiKey |-> "none"]

\* response bodies: JSON objects (without and with an error field, with an
\* apiKey field), the JSON text null, and text that is not JSON (an HTML
\* error page of a proxy, an empty body)
Bodies ==
    {[kind |-> "json", error |-> "none", apiKey |-> "none"],
     [kind |-> "json", error |-> "none", apiKey |-> "mesh_new"],
     [kind |-> "json", error |-> "denied", apiKey |-> "none"],
     [kind |-> "null", error |-> "none", apiKey |-> "none"],
     [kind |-> "text", error |-> "none", apiKey |-> "none"]}

NoErr == [name |-> "none", message |-> "none", statusCode |-> 0, response |-> NoBody]

\* new AgentMeshError(message, statusCode, response)
AgentMeshError(message, statusCode, response) ==
    [name |-> "AgentMeshError", message |-> message, statusCode |-> statusCode,
     response |-> response]

NoGwCall ==
    [op |-> "none", state |-> "idle", timer |-> "none", keyAtCall |-> "none",
     sent |-> FALSE, keyHeader |-> "absent", status |-> 0, body |-> NoBody,
     err |-> NoErr, out |-> NoBody, value |-> FALSE]

\* response.ok
ResponseOk(status) == status >= 200 /\ status <= 299

\* the catch block of request: an AgentMeshError is rethrown, another Error
\* is wrapped, an AbortError as 'Request timeout'
Caught(name, message) ==
    IF name = "AbortError" THEN AgentMeshError("Request timeout", 0, NoBody)
    ELSE AgentMeshError(message, 0, NoBody)

\* mutant of RequestIssue: no key check, the header is sent as it is
RequestIssue_noKeyCheck(c, auth, apiKey) ==
    [c EXCEPT !.state = "headers", !.timer = "armed", !.sent = TRUE,
              !.keyAtCall = apiKey,
              !.keyHeader = IF auth /\ apiKey # "none" THEN apiKey ELSE "absent"]

\* request() up to `await fetch(...)`: the key check, the headers, the timer
RequestIssue(c, auth, apiKey) ==
    IF auth /\ apiKey \in {"none", ""}
    THEN [c EXCEPT !.state = "error", !.keyAtCall = apiKey,
                   !.err = AgentMeshError("API key required", 0, NoBody)]
    ELSE [c EXCEPT !.state = "headers", !.timer = "armed", !.sent = TRUE,
                   !.keyAtCall = apiKey,
                   !.keyHeader = IF auth THEN apiKey ELSE "absent"]

\* request() from `await response.json()` on, given the body that arrived:
\* the parse, the status check, the return
RequestFinish(status, body) ==
    IF body.kind = "text"
    THEN [ok |-> FALSE, err |-> Caught("SyntaxError", "Unexpected token"), data |-> NoBody]
    ELSE IF ~ResponseOk(status)
    THEN IF body.kind = "null"
         THEN [ok |-> FALSE, err |-> Caught("TypeError", "Cannot read properties of null"),
               data |-> NoBody]
         ELSE [ok |-> FALSE,
               err |-> AgentMeshError(IF body.error # "none" THEN body.error ELSE "HTTP",
                                      status, body),
               data |-> NoBody]
    ELSE [ok |-> TRUE, err |-> NoErr, data |-> body]

\* what the operation does with the outcome r of its request() call
OpFinish(c, r) ==
    IF c.op = "isOnline"
    THEN [c EXCEPT !.state = "ok", !.value = r.ok /\ r.data.kind = "json"]
    ELSE IF ~r.ok THEN [c EXCEPT !.state = "error", !.err = r.err]
    ELSE IF c.op \in {"register", "retrieveString"} /\ r.data.kind = "null"
    THEN [c EXCEPT !.state = "error",
                   !.err = [name |-> "TypeError",
                            message |-> "Cannot read properties of null",
                            statusCode |-> 0, response |-> NoBody]]
    ELSE [c EXCEPT !.state = "ok", !.out = r.data]

\* mutant of register: the key of the response is not taken over
register_keyNotSet(done, data, apiKey) == apiKey

\* this.apiKey after register(): `if (response.apiKey) this.apiKey =
\* response.apiKey` once request() has returned
register(done, data, apiKey) ==
    IF done.state = "ok" /\ data.apiKey \notin {"none", ""} THEN data.apiKey ELSE apiKey

Failed(err) == [ok |-> FALSE, err |-> err, data |-> NoBody]

GwInFlight == gwCall.state \in {"headers", "body"}

GatewayOff == gwKey = "none" /\ gwCall = NoGwCall

\* new AgentMeshClient(config)
GatewayInit == gwKey \in {"none", "mesh_old"} /\ gwCall = NoGwCall

SetApiKey ==
    /\ \E k \in ApiKeys \ {"none"} : gwKey' = k
    /\ UNCHANGED <<gwCall, codecVars, meshVars, batchVars, discVars, strVars>>

\* an operation is called: it runs to the fetch of request(), or fails at
\* the key check
GwCall ==
    /\ ~GwInFlight
    /\ \E op \in AuthOps \cup OpenOps :
          gwCall' = RequestIssue([NoGwCall EXCEPT !.op = op], op \in AuthOps, gwKey)
    /\ UNCHANGED <<gwKey, codecVars, meshVars, batchVars, discVars, strVars>>

\* the response headers arrive: fetch resolves, the timer is cleared and the
\* body read starts
GwHeaders ==
    /\ gwCall.state = "headers"
    /\ \E status \in Statuses :
          gwCall' = [gwCall EXCEPT !.state = "body", !.timer = "cleared",
                                   !.status = status]
    /\ UNCHANGED <<gwKey, codecVars, meshVars, batchVars, discVars, strVars>>

\* the body has arrived: response.json() settles and the call runs to its end
GwBody ==
    /\ gwCall.state = "body"
    /\ \E body \in Bodies :
          LET r == RequestFinish(gwCall.status, body)
              done == OpFinish([gwCall EXCEPT !.body = body], r)
          IN  /\ gwCall' = done
              /\ gwKey' = IF gwCall.op = "register"
                          THEN register(done, r.data, gwKey) ELSE gwKey
    /\ UNCHANGED <<codecVars, meshVars, batchVars, discVars, strVars>>

\* the timer fires while the fetch is pending: controller.abort() rejects it
\* with an AbortError
GwTimeout ==
    /\ gwCall.state = "headers" /\ gwCall.timer = "armed"
    /\ gwCall' = OpFinish([gwCall EXCEPT !.timer = "fired"],
                          Failed(Caught("AbortError", "This operation was aborted")))
    /\ UNCHANGED <<gwKey, codecVars, meshVars, batchVars, discVars, strVars>>

\* the connection fails: the pending fetch, or the pending body read, rejects
GwNetworkFail ==
    /\ GwInFlight
    /\ gwCall' = OpFinish([gwCall EXCEPT !.timer = "cleared"],
                          Failed(Caught("TypeError", "fetch failed")))
    /\ UNCHANGED <<gwKey, codecVars, meshVars, batchVars, discVars, strVars>>

GatewayNext ==
    \/ SetApiKey
    \/ GwCall
    \/ GwHeaders
    \/ GwBody
    \/ GwTimeout
    \/ GwNetworkFail

-----------------------------------------------------------------------------
(* crypto.ts, the base64 string API: generateKey, encrypt, decrypt. A text *)
(* is a sequence of UTF-16 code units. Which branch runs, Web Crypto with  *)
(* TextDecoder or Node's crypto with Buffer.toString, depends on the       *)
(* runtime (`typeof crypto !== 'undefined' && crypto.subtle`). Surrogate   *)
(* pairs are encoded but are not among the texts of the harness.           *)

Runtimes == {"webcrypto", "node"}

IsHigh(c) == c >= 55296 /\ c <= 56319
IsLow(c) == c >= 56320 /\ c <= 57343

\* the UTF-8 bytes of the code point of a surrogate pair
Utf8Pair(h, l) ==
    LET cp == 65536 + (h - 55296) * 1024 + (l - 56320)
    IN  <<240 + (cp \div 262144), 128 + ((cp \div 4096) % 64),
          128 + ((cp \div 64) % 64), 128 + (cp % 64)>>

\* TextEncoder.encode: UTF-8, a lone surrogate becomes U+FFFD
TextEncode(str) ==
    Flatten([i \in 1..Len(str) |->
        IF IsHigh(str[i]) /\ i < Len(str) /\ IsLow(str[i + 1])
        THEN Utf8Pair(str[i], str[i + 1])
        ELSE IF IsLow(str[i]) /\ i > 1 /\ IsHigh(str[i - 1]) THEN <<>>
        ELSE IF IsHigh(str[i]) \/ IsLow(str[i]) THEN Utf8Char(REPLACEMENT)
        ELSE Utf8Char(str[i])])

\* the UTF-8 byte order mark, U+FEFF
BOM == <<239, 187, 191>>

\* new TextDecoder().decode: a leading byte order mark is dropped
TextDecode(bytes) ==
    IF Len(bytes) >= 3 /\ SubSeq(bytes, 1, 3) = BOM
    THEN Utf8Decode(SubSeq(bytes, 4, Len(bytes)))
    ELSE Utf8Decode(bytes)

\* the character of a base64 digit
B64Char(x) ==
    IF x < 26 THEN 65 + x
    ELSE IF x < 52 THEN 71 + x
    ELSE IF x < 62 THEN x - 4
    ELSE IF x = 62 THEN 43
    ELSE IF x = 63 THEN 47
    ELSE 61

\* a base64 string as text
B64Text(s) == [i \in 1..Len(s) |-> B64Char(s[i])]

\* keys generateKey() returns: toBase64 of 32 random bytes
GeneratedKeys == {ToBase64(KeyA), ToBase64(KeyB)}

\* encrypt(plaintext, key) with the iv the random source gave: both branches
\* return base64(iv + ciphertext + tag)
strEncrypt(plaintext, key, iv) ==
    LET plaintextBytes == TextEncode(plaintext)
        keyBytes == FromBase64(key)
        ciphertext == GcmCrypt(keyBytes, iv, plaintextBytes)
        tag == GcmTag(keyBytes, iv, ciphertext)
    IN  IF Len(keyBytes) # KEY_LENGTH
        THEN [ok |-> FALSE, err |-> "InvalidKeyLength", s |-> <<>>]
        ELSE [ok |-> TRUE, err |-> "none", s |-> ToBase64(iv \o ciphertext \o tag)]

\* decrypt(ciphertext, key): the iv is the first 12 bytes, the tag the last
\* 16; the plaintext is decoded by TextDecoder (Web Crypto branch) or by
\* Buffer.toString('utf-8') (Node branch)
strDecrypt(ciphertext, key, runtime) ==
    LET combined == FromBase64(ciphertext)
        keyBytes == FromBase64(key)
        iv == Subarray(combined, 0, IV_LENGTH)
        encrypted == Subarray(combined, IV_LENGTH, Len(combined))
        tag == Subarray(encrypted, Len(encrypted) - AUTH_TAG_LENGTH, Len(encrypted))
        ciphertextOnly == Subarray(encrypted, 0, Len(encrypted) - AUTH_TAG_LENGTH)
        decrypted == GcmUncrypt(keyBytes, iv, ciphertextOnly)
    IN  IF Len(keyBytes) # KEY_LENGTH
        THEN [ok |-> FALSE, err |-> "InvalidKeyLength", s |-> <<>>]
        ELSE IF Len(iv) = 0 \/ Len(encrypted) < AUTH_TAG_LENGTH
        THEN [ok |-> FALSE, err |-> "InvalidInput", s |-> <<>>]
        ELSE IF GcmTag(keyBytes, iv, ciphertextOnly) # tag
        THEN [ok |-> FALSE, err |-> "AuthFailed", s |-> <<>>]
        ELSE [ok |-> TRUE, err |-> "none",
              s |-> IF runtime = "webcrypto" THEN TextDecode(decrypted)
                    ELSE Utf8Decode(decrypted)]

\* the code units of the texts: a, e-acute, the euro sign, U+FEFF and a
\* high surrogate
StringUnits == {97, 233, 8364, 65279, 55357}

Strings == SeqsUpTo(StringUnits, MaxStringLen)

NoStrResult == [ok |-> FALSE, err |-> "pending", s |-> <<>>]

NoStrCall ==
    [phase |-> "off", runtime |-> "node", s |-> <<>>, key |-> <<>>, decKey |-> <<>>,
     cipher |-> NoStrResult, out |-> NoStrResult]

StringOff == strCall = NoStrCall

StringInit ==
    \E runtime \in Runtimes, s \in Strings, key \in GeneratedKeys :
        strCall = [NoStrCall EXCEPT !.phase = "input", !.runtime = runtime,
                                    !.s = s, !.key = key]

StringEncrypt ==
    /\ strCall.phase = "input"
    /\ \E iv \in IVs :
          strCall' = [strCall EXCEPT !.phase = "encrypted",
                                     !.cipher = strEncrypt(strCall.s, strCall.key, iv)]
    /\ UNCHANGED <<codecVars, meshVars, batchVars, discVars, gwVars>>

StringDecrypt ==
    /\ strCall.phase = "encrypted" /\ strCall.cipher.ok
    /\ \E key \in GeneratedKeys :
          strCall' = [strCall EXCEPT !.phase = "done", !.decKey = key,
                          !.out = strDecrypt(strCall.cipher.s, key, strCall.runtime)]
    /\ UNCHANGED <<codecVars, meshVars, batchVars, discVars, gwVars>>

StringNext ==
    \/ StringEncrypt
    \/ StringDecrypt

-----------------------------------------------------------------------------
(* Specifications: the codec harness, the store and discovery are checked  *)
(* apart                                                                   *)

InitCodec == CodecInit /\ MeshOff /\ BatchOff /\ DiscoveryOff /\ GatewayOff /\ StringOff

SpecCodec == InitCodec /\ [][CodecNext]_vars

InitMesh == MeshInit /\ BatchOff /\ CodecOff /\ DiscoveryOff /\ GatewayOff /\ StringOff

SpecMesh == InitMesh /\ [][MeshNext]_vars

InitDiscovery == DiscoveryInit /\ CodecOff /\ MeshOff /\ BatchOff /\ GatewayOff /\ StringOff

SpecDiscovery == InitDiscovery /\ [][DiscoveryNext]_vars

InitBatch == MeshInit /\ BatchOff /\ CodecOff /\ DiscoveryOff /\ GatewayOff /\ StringOff

SpecBatch == InitBatch /\ [][BatchNext]_vars

InitGateway ==
    GatewayInit /\ CodecOff /\ MeshOff /\ BatchOff /\ DiscoveryOff /\ StringOff

SpecGateway == InitGateway /\ [][GatewayNext]_vars

\* the timer of request() fires when its time is up
SpecGatewayLive == SpecGateway /\ WF_vars(GwTimeout)

InitInstances == InstancesInit /\ CodecOff /\ MeshOff /\ BatchOff /\ GatewayOff /\ StringOff
SpecInstances == InitInstances /\ [][InstancesNext]_vars

InitString ==
    StringInit /\ CodecOff /\ MeshOff /\ BatchOff /\ DiscoveryOff /\ GatewayOff

SpecString == InitString /\ [][StringNext]_vars

-----------------------------------------------------------------------------
(* Claims about the codec *)

\* the smallest valid packed blob: iv and tag, no ciphertext
MinBlobLen == IV_LENGTH + AUTH_TAG_LENGTH

\* C1: decrypt(unpackPayload(packPayload(encrypt(p, k))), k) returns exactly
\* p, for every plaintext p (the empty one included) and every key k.
C1_RoundTrip ==
    (cPhase = "done" /\ cOrigin = "packed" /\ cDecKey = cKey)
        => (cOut.ok /\ cOut.data = cPlain.val)

C1_Witness ==
    /\ cPhase = "done" /\ cOrigin = "packed" /\ cDecKey = cKey
    /\ cKey.kind = "buffer"
    /\ cPlain.val = <<200, 0>>
    /\ cOut.ok

\* C2: after one bit of the iv, the tag or the ciphertext of a packed
\* payload is flipped, decrypt with the original key fails on the tag check
\* and returns no plaintext.
C2_TamperDetected ==
    (cPhase = "done" /\ cOrigin = "flipped")
        => (~cOut.ok /\ cOut.err = "AuthFailed" /\ cOut.data = <<>>)

C2_Witness ==
    /\ cPhase = "done" /\ cOrigin = "flipped"
    /\ cFlip > 8 * MinBlobLen
    /\ cDecKey = cKey
    /\ ~cOut.ok

\* C3: unpackPayload of a blob shorter than 28 bytes fails with FormatError
\* and returns no EncryptedPayload.
C3_UndersizedRejected ==
    (cPhase \in {"unpacked", "done"} /\ Len(cBlob) < MinBlobLen)
        => (~cUnpacked.ok /\ cUnpacked.err = "FormatError")

\* C18: packPayload of a payload with a 12-byte iv and a 16-byte tag yields
\* a blob whose bytes [0,12) are the iv, [12,28) the tag and [28,end) the
\* ciphertext; unpackPayload(packPayload(x)) = x, and
\* packPayload(unpackPayload(b)) = b for every blob b of at least 28 bytes.
C18_PackLayout ==
    /\ (cOrigin = "packed" /\ cPhase \in {"packed", "unpacked", "done"}) =>
          /\ Subarray(cBlob, 0, IV_LENGTH) = FromBase64(cPayload.iv)
          /\ Len(FromBase64(cPayload.iv)) = IV_LENGTH
          /\ Subarray(cBlob, IV_LENGTH, MinBlobLen) = FromBase64(cPayload.authTag)
          /\ Len(FromBase64(cPayload.authTag)) = AUTH_TAG_LENGTH
          /\ Subarray(cBlob, MinBlobLen, Len(cBlob)) = FromBase64(cPayload.ciphertext)
          /\ Len(cBlob) = MinBlobLen + Len(FromBase64(cPayload.ciphertext))
    /\ (cOrigin = "packed" /\ cPhase \in {"unpacked", "done"}) =>
          (cUnpacked.ok /\ cUnpacked.payload = cPayload)
    /\ (cPhase \in {"unpacked", "done"} /\ Len(cBlob) >= MinBlobLen) =>
          packPayload(cUnpacked.payload) = cBlob

\* a packed blob with two bytes of ciphertext, unpacked again
C18_Witness ==
    /\ cOrigin = "packed" /\ cPhase = "unpacked"
    /\ Len(cBlob) = MinBlobLen + 2

-----------------------------------------------------------------------------
(* Claims about AgentMesh.store / AgentMesh.retrieve *)

\* a retrieve call has completed and the node had handed it the blob of
\* call.cid
Retrieved == call.op = "retrieve" /\ call.state \in {"ok", "error"} /\ call.stage # "cat"

\* C4: retrieve(store(r).cid) by an instance that holds the key r was stored
\* under returns a record equal to r, whenever the node returns the blob.
C4_StoreRetrieveRoundTrip ==
    (/\ Retrieved
     /\ ~ipfsOrigin[call.cid].foreign
     /\ ipfsOrigin[call.cid].key = meshKey[call.mesh])
        => (call.state = "ok" /\ call.out = ipfsOrigin[call.cid].memory)

C4_Witness ==
    /\ Retrieved
    /\ ~ipfsOrigin[call.cid].foreign
    /\ call.state = "ok"
    /\ call.out = MemRich

\* C5: retrieve of a blob stored under key K by an instance that holds
\* another key fails on the tag check and returns no record.
C5_WrongKeyRejected ==
    (/\ Retrieved
     /\ ~ipfsOrigin[call.cid].foreign
     /\ ipfsOrigin[call.cid].key # meshKey[call.mesh])
        => (/\ call.state = "error"
            /\ call.stage = "decrypt"
            /\ call.err = "AuthFailed"
            /\ call.out = JNull)

C5_Witness ==
    /\ Retrieved
    /\ ~ipfsOrigin[call.cid].foreign
    /\ ipfsOrigin[call.cid].key = deriveKey(PassPw)
    /\ meshKey[call.mesh] = KeyB
    /\ call.state = "error"

-----------------------------------------------------------------------------
(* Claims about discovery, checked under SpecDiscovery                     *)

\* bootstrap entry i of list is one bootstrap connects to
Eligible(list, i, self) == list[i].peerId # self /\ Len(Addresses(list[i])) > 0

\* the entries of list up to n that hold peer id p
EntriesOf(list, n, p) == {i \in 1..n : list[i].peerId = p}

\* C6: in every run of bootstrap() no connect attempt goes to an address of
\* a bootstrap entry whose peerId is the node's own id, and the returned
\* skipped count is the number of bootstrap entries with that peerId.
C6_SelfSkipped ==
    \A d \in Discs :
        LET b == dop[d]
            list == BootstrapPeers(d)
        IN  (b.kind = "bootstrap" /\ b.pc \in {"connect", "done"}) =>
                /\ \A k \in 1..Len(b.log) : list[b.log[k].entry].peerId # selfId
                /\ b.pc = "done" =>
                      b.skipped = Cardinality(EntriesOf(list, b.n, selfId))

C6_Witness ==
    \E d \in Discs :
        /\ dop[d].kind = "bootstrap" /\ dop[d].pc = "done"
        /\ dop[d].skipped = 2 /\ dop[d].connected = 1
        /\ Cardinality(EntriesOf(BootstrapPeers(d), dop[d].n, selfId)) = 2

\* C7: findMeshPeers() returns exactly the peers the transport reports as
\* connected whose peerId is in the bootstrap list, in the reported order,
\* and no other peer.
C7_FindMeshPeers ==
    \A d \in Discs :
        LET q == dop[d]
            list == BootstrapPeers(d)
        IN  (q.kind = "findMeshPeers" /\ q.pc = "done") =>
                [k \in 1..Len(q.result) |-> q.result[k].peerId]
                    = SelectSeq(q.report, LAMBDA p : EntriesOf(list, q.n, p) # {})

\* connected = {A,B,C} and bootstrap = {B,D} give exactly {B}
C7_Witness ==
    \E d \in Discs :
        /\ dop[d].kind = "findMeshPeers" /\ dop[d].pc = "done"
        /\ Range(dop[d].report) = {"A", "B", "C"}
        /\ {BootstrapPeers(d)[i].peerId : i \in 1..dop[d].n} = {"B", "D"}
        /\ Len(dop[d].result) = 1 /\ dop[d].result[1].peerId = "B"

\* C8: within one bootstrap() call the addresses of every non-self peer are
\* attempted in list order, each once at most, none after the first that
\* succeeds; the peer is counted connected iff one of its attempts succeeded
\* and failed otherwise; no two connect attempts are in flight at once.
C8_AddressesInOrder ==
    \A d \in Discs :
        LET b == dop[d]
            list == BootstrapPeers(d)
            log == b.log
            Won == {i \in 1..b.n : \E k \in 1..Len(log) :
                        log[k].entry = i /\ log[k].result = "true"}
        IN  b.kind = "bootstrap" =>
                /\ \A k \in 1..Len(log) :
                      /\ log[k].addr = Addresses(list[log[k].entry])[log[k].j]
                      /\ log[k].result = "pending" => (k = Len(log) /\ b.pc = "connect")
                      /\ k = 1 => log[k].j = 1
                      /\ k > 1 =>
                            IF log[k - 1].result = "true"
                            THEN log[k].entry > log[k - 1].entry /\ log[k].j = 1
                            ELSE \/ /\ log[k].entry = log[k - 1].entry
                                    /\ log[k].j = log[k - 1].j + 1
                                 \/ /\ log[k].entry > log[k - 1].entry
                                    /\ log[k].j = 1
                                    /\ log[k - 1].j =
                                          Len(Addresses(list[log[k - 1].entry]))
                /\ b.pc = "done" =>
                      /\ b.connected = Cardinality(Won)
                      /\ b.failed = Cardinality({i \in 1..b.n :
                                        list[i].peerId # selfId /\ i \notin Won})
                      /\ \A i \in Won : list[i].peerId \in DOMAIN connectedPeers[d]
                      /\ \A i \in 1..b.n : Eligible(list, i, selfId) =>
                            \/ i \in Won
                            \/ \A j \in 1..Len(Addresses(list[i])) :
                                  \E k \in 1..Len(log) :
                                      /\ log[k].entry = i /\ log[k].j = j
                                      /\ log[k].result = "false"

\* a peer with two addresses whose first address connects: the second is
\* never attempted
C8_Witness ==
    \E d \in Discs :
        LET b == dop[d]
            list == BootstrapPeers(d)
        IN  /\ b.kind = "bootstrap" /\ b.pc = "done"
            /\ \E k \in 1..Len(b.log) :
                  /\ b.log[k].result = "true" /\ b.log[k].j = 1
                  /\ Len(Addresses(list[b.log[k].entry])) = 2
                  /\ \A m \in 1..Len(b.log) :
                        b.log[m].entry = b.log[k].entry => m = k

\* C9: connect never throws: when the node refuses, answers non-OK, times
\* out or is unreachable it returns false, and bootstrap goes on with the
\* remaining addresses and peers.
C9_ConnectNeverThrows ==
    \A d \in Discs :
        LET b == dop[d]
            list == BootstrapPeers(d)
        IN  /\ (b.kind = "connect" /\ b.pc # "fetch") =>
                  (b.pc = "done" /\ b.value = (b.last = "ok"))
            /\ b.kind = "bootstrap" =>
                  /\ \A k \in 1..Len(b.log) : b.log[k].result # "thrown"
                  /\ b.pc = "thrown" => b.log = <<>>
                  /\ b.pc = "done" =>
                        \A i \in 1..b.n : Eligible(list, i, selfId) =>
                            \E k \in 1..Len(b.log) : b.log[k].entry = i

\* the node did not answer a connect of bootstrap, and bootstrap is at its
\* next attempt
C9_Witness ==
    \E d \in Discs :
        /\ dop[d].kind = "bootstrap" /\ dop[d].pc = "connect"
        /\ dop[d].last = "reject" /\ Len(dop[d].log) >= 2

\* C10: a transport failure or timeout during a discovery operation
\* (bootstrap with its self-identity query, peers, findMeshPeers,
\* isConnected) never escapes as a failure of the operation.
C10_NoFailureEscapes == \A d \in Discs : dop[d].pc # "thrown"

\* C20: peers() returns one record per connection the transport reports,
\* with the reported peerIds in the reported order; each record is merged
\* with the metadata known for the peerId, from the connected map if it is
\* there and otherwise from the bootstrap list; a peer known to neither is
\* returned as reported.
C20_PeersEnriched ==
    \A d \in Discs :
        LET q == dop[d]
            list == BootstrapPeers(d)
            map == connectedPeers[d]
        IN  (q.kind = "peers" /\ q.pc = "done") =>
                /\ Len(q.result) = Len(q.report)
                /\ \A k \in 1..Len(q.report) :
                      LET id == q.report[k]
                          inBoot == EntriesOf(list, q.n, id)
                          known == IF id \in DOMAIN map THEN map[id]
                                   ELSE list[Min(inBoot)]
                      IN  /\ q.result[k].peerId = id
                          /\ IF id \in DOMAIN map \/ inBoot # {}
                             THEN /\ q.result[k].agentName = known.agentName
                                  /\ q.result[k].multiaddrs =
                                        IF known.hasAddrs THEN known.multiaddrs
                                        ELSE <<LiveAddr(id)>>
                             ELSE /\ q.result[k].agentName = "none"
                                  /\ q.result[k].multiaddrs = <<LiveAddr(id)>>

\* a report of three peers: one in the connected map, one only in the
\* bootstrap list, one in neither
C20_Witness ==
    \E d \in Discs :
        LET q == dop[d]
            list == BootstrapPeers(d)
            map == connectedPeers[d]
        IN  /\ q.kind = "peers" /\ q.pc = "done" /\ Len(q.result) = 3
            /\ \E a, b, c \in Range(q.report) :
                  /\ a \in DOMAIN map
                  /\ b \notin DOMAIN map /\ EntriesOf(list, q.n, b) # {}
                  /\ c \notin DOMAIN map /\ EntriesOf(list, q.n, c) = {}

\* C21: a peer that bootstrap() put into the connected map and that the
\* transport does not report is absent from the result of peers() and
\* findMeshPeers() and isConnected answers false for it; when the transport
\* reports it, it is in both results and isConnected answers true; no entry
\* ever leaves the connected map.
C21_StaleByListing ==
    /\ [](\A d \in Discs :
            LET q == dop[d]
                ids == {q.result[k].peerId : k \in 1..Len(q.result)}
            IN  \A p \in DOMAIN connectedPeers[d] :
                    /\ (q.kind \in {"peers", "findMeshPeers"} /\ q.pc = "done") =>
                          (p \in ids <=> p \in Range(q.report))
                    /\ (q.kind = "isConnected" /\ q.pc = "done" /\ q.argPeer = p) =>
                          (q.value <=> p \in Range(q.report)))
    /\ [][\A d \in Discs : DOMAIN connectedPeers[d] \subseteq DOMAIN connectedPeers'[d]]_vars

\* two peers of the connected map, one reported and returned, the other
\* neither reported nor returned
C21_Witness ==
    \E d \in Discs :
        LET q == dop[d]
        IN  /\ q.kind = "findMeshPeers" /\ q.pc = "done"
            /\ \E p, r \in DOMAIN connectedPeers[d] :
                  /\ p \notin Range(q.report)
                  /\ r \in Range(q.report)
                  /\ {q.result[k].peerId : k \in 1..Len(q.result)} = {r}

\* the calls that only read
ReadOnlyKinds ==
    {"announce", "getSelfInfo", "peers", "findMeshPeers", "isConnected",
     "getBootstrapPeers"}

\* the endpoint of the request a call awaits
Awaited(op) ==
    IF op.pc = "connect" \/ (op.kind = "connect" /\ op.pc = "fetch") THEN "swarm/connect"
    ELSE IF op.pc = "id" \/ (op.kind \in {"getSelfInfo", "announce"} /\ op.pc = "fetch")
    THEN "id"
    ELSE IF op.pc = "fetch" THEN "swarm/peers"
    ELSE "none"

\* C24: announce(), getSelfInfo(), peers(), findMeshPeers(), isConnected()
\* and getBootstrapPeers() issue no connect request and leave the bootstrap
\* list and the connected map as they are; the connected map changes only
\* in a step of bootstrap() and the bootstrap list only in a call of
\* addBootstrapPeer().
C24_ReadOnlyCalls ==
    [][\A d \in Discs :
          /\ dop'[d].kind \in ReadOnlyKinds =>
                /\ Awaited(dop'[d]) # "swarm/connect"
                /\ dop'[d].log = <<>>
          /\ (dop'[d] # dop[d] /\ dop'[d].kind \in ReadOnlyKinds) =>
                /\ bootList' = bootList
                /\ connectedPeers' = connectedPeers
                /\ swarm' = swarm
          /\ connectedPeers'[d] # connectedPeers[d] =>
                (dop[d].kind = "bootstrap" /\ Awaited(dop[d]) = "swarm/connect")
          /\ BootstrapPeers(d)' # BootstrapPeers(d) =>
                /\ dop' = dop
                /\ \E e \in instances, peer \in AddablePeers : addBootstrapPeer(e, peer)]_vars

\* each of the six calls has returned at a time when the connected map is
\* not empty, here announce()
C24_Witness ==
    \E d \in Discs :
        /\ dop[d].kind = "announce" /\ dop[d].pc = "done"
        /\ DOMAIN connectedPeers[d] # {}
        /\ Len(BootstrapPeers(d)) > Len(InitialList(bootRef[d]))

\* the connect attempts of bootstrap call b that returned true
Wins(b) == {k \in 1..Len(b.log) : b.log[k].result = "true"}

\* C27 as stated: every bootstrap() call that returns counts each bootstrap
\* entry exactly once: connected + failed + skipped is the number of entries
\* the bootstrap list had at the time of the call, and connected is the
\* number of entries the call wrote to the connected map.
C27_CountsListAtCall ==
    \A d \in Discs :
        LET b == dop[d]
        IN  (b.kind = "bootstrap" /\ b.pc = "done") =>
                /\ b.connected + b.failed + b.skipped = b.atCall
                /\ b.connected = Cardinality(Wins(b))

\* C27 as amended: connected + failed + skipped is the number of entries the
\* bootstrap list has when the call returns (an entry that addBootstrapPeer
\* appends while the call is waiting is iterated and counted as well), every
\* entry is counted once, and connected is the number of entries the call
\* wrote to the connected map: the counter goes up by one in exactly the
\* steps that write an entry, and the map changes in no other step.
C27_CountsListAtReturn ==
    /\ [](\A d \in Discs :
            LET b == dop[d]
                list == BootstrapPeers(d)
            IN  (b.kind = "bootstrap" /\ b.pc = "done") =>
                    /\ b.n >= b.atCall /\ b.n <= Len(list)
                    /\ b.connected + b.failed + b.skipped = b.n
                    /\ b.skipped = Cardinality(EntriesOf(list, b.n, b.self))
                    /\ b.connected = Cardinality(Wins(b))
                    /\ \A k, m \in Wins(b) : b.log[k].entry = b.log[m].entry => k = m
                    /\ \A k \in Wins(b) :
                          list[b.log[k].entry].peerId \in DOMAIN connectedPeers[d])
    /\ [][\A d \in Discs :
            LET b == dop[d]
                list == BootstrapPeers(d)
            IN  /\ (b.kind = "bootstrap" /\ b.pc # "done" /\ dop'[d].pc = "done") =>
                      dop'[d].n = Len(list)
                /\ (b.kind = "bootstrap" /\ b.pc = "connect" /\ dop'[d] # b) =>
                      IF dop'[d].log[Len(b.log)].result = "true"
                      THEN /\ dop'[d].connected = b.connected + 1
                           /\ connectedPeers'[d] = MapSet(connectedPeers[d], list[b.i])
                      ELSE /\ dop'[d].connected = b.connected
                           /\ connectedPeers'[d] = connectedPeers[d]
                /\ ~(b.kind = "bootstrap" /\ b.pc = "connect") =>
                      connectedPeers'[d] = connectedPeers[d]]_vars

\* a bootstrap() call that returned after a peer was added to its list while
\* it was waiting: it has counted one entry more than the list had at the call
C27_Witness ==
    \E d \in Discs :
        LET b == dop[d]
        IN  /\ b.kind = "bootstrap" /\ b.pc = "done"
            /\ b.n = b.atCall + 1
            /\ b.connected >= 1 /\ b.failed >= 1 /\ b.skipped >= 1

\* C28: whatever calls of bootstrap(), addBootstrapPeer(), peers() and
\* findMeshPeers() were made, every peerId in the connected map is the
\* peerId of a bootstrap-list entry, it entered the map in a step in which a
\* connect attempt to an address of such an entry returned true, and the
\* node's own id is never a key of the connected map.
C28_ConnectedMapSound ==
    /\ [](\A d \in Discs : \A p \in DOMAIN connectedPeers[d] :
            /\ p # selfId
            /\ connectedPeers[d][p].peerId = p
            /\ \E i \in 1..Len(BootstrapPeers(d)) :
                  BootstrapPeers(d)[i] = connectedPeers[d][p])
    /\ [][\A d \in Discs :
            LET b == dop[d]
                list == BootstrapPeers(d)
            IN  \A p \in DOMAIN connectedPeers'[d] :
                    (p \notin DOMAIN connectedPeers[d]
                        \/ connectedPeers'[d][p] # connectedPeers[d][p]) =>
                        /\ b.kind = "bootstrap" /\ b.pc = "connect"
                        /\ list[b.i].peerId = p /\ p # b.self
                        /\ b.log[Len(b.log)].addr = Addresses(list[b.i])[b.j]
                        /\ dop'[d].log[Len(b.log)].result = "true"
                        /\ connectedPeers'[d][p] = list[b.i]]_vars

\* after bootstrap(), addBootstrapPeer() and findMeshPeers() calls the map
\* holds a configured peer and a peer added at run time
C28_Witness ==
    \E d \in Discs :
        /\ dop[d].kind = "findMeshPeers" /\ dop[d].pc = "done"
        /\ Cardinality(DOMAIN connectedPeers[d]) >= 2
        /\ \E p \in DOMAIN connectedPeers[d] : connectedPeers[d][p].agentName = "late"

\* the peer ids of list are pairwise distinct
DistinctIds(list) ==
    \A i, k \in 1..Len(list) : list[i].peerId = list[k].peerId => i = k

\* C29: addBootstrapPeer is idempotent by peerId: a bootstrap list that was
\* configured with pairwise distinct peerIds keeps pairwise distinct
\* peerIds; a list changes only by getting a peer appended whose peerId it
\* did not hold, so that adding a peerId it holds changes nothing and the
\* entry it has is kept; and findMeshPeers() returns a peer added at run
\* time whenever the node reports it as connected.
C29_AddIsIdempotent ==
    /\ [](\A d \in Discs :
            LET q == dop[d]
                list == BootstrapPeers(d)
                configured == InitialList(bootRef[d])
            IN  /\ DistinctIds(configured) => DistinctIds(list)
                /\ SubSeq(list, 1, Len(configured)) = configured
                /\ (q.kind = "findMeshPeers" /\ q.pc = "done") =>
                      \A i \in (Len(configured) + 1)..q.n :
                          list[i].peerId \in Range(q.report) =>
                              \E k \in 1..Len(q.result) :
                                  q.result[k].peerId = list[i].peerId)
    /\ [][\A d \in Discs :
            LET list == BootstrapPeers(d)
            IN  BootstrapPeers(d)' # list =>
                    \E peer \in AddablePeers :
                        /\ BootstrapPeers(d)' = Append(list, peer)
                        /\ \A i \in 1..Len(list) : list[i].peerId # peer.peerId]_vars

\* findMeshPeers() returned a peer that addBootstrapPeer had added
C29_Witness ==
    \E d \in Discs :
        LET q == dop[d]
            list == BootstrapPeers(d)
        IN  /\ q.kind = "findMeshPeers" /\ q.pc = "done"
            /\ DistinctIds(list)
            /\ \E k \in 1..Len(q.result) :
                  /\ q.result[k].agentName = "late"
                  /\ q.result[k].peerId \notin DOMAIN connectedPeers[d]

\* the log positions of the connect attempts bootstrap call b made for entry i
AttemptsFor(b, i) == {k \in 1..Len(b.log) : b.log[k].entry = i}

-----------------------------------------------------------------------------
(* Claims about the batch calls, checked under SpecBatch                   *)

\* C11: if the store or retrieve of one element of a batch fails, the batch
\* fails as a whole with that failure; it never returns a list in which the
\* failed element is missing or replaced.
C11_BatchFailsAsWhole ==
    /\ Rejected(batch.elems) # {} =>
          /\ batch.state = "error"
          /\ batch.errAt \in Rejected(batch.elems)
          /\ batch.err = batch.elems[batch.errAt].err
          /\ batch.out = <<>>
    /\ batch.state = "ok" =>
          /\ Len(batch.out) = Len(batch.elems)
          /\ \A i \in 1..Len(batch.elems) :
                /\ batch.elems[i].state = "ok"
                /\ batch.out[i] = ElemResult(batch.elems[i])

\* a batch of two of which one element resolved and the other failed
C11_Witness ==
    /\ batch.state = "error" /\ Len(batch.elems) = 2
    /\ \E i, j \in 1..2 :
          /\ batch.elems[i].state = "ok"
          /\ batch.elems[j].state = "error" /\ batch.errAt = j

\* C25: in a storeBatch / retrieveBatch that resolved, whatever the order in
\* which its requests completed, the result has the length of the input and
\* its i-th element is the result for the i-th input element; an empty
\* batch resolves with an empty result and issues no request.
C25_ResultsInInputOrder ==
    /\ batch.state = "ok" =>
          /\ Len(batch.out) = Len(batch.input)
          /\ Len(batch.order) = Len(batch.input)
          /\ \A i \in 1..Len(batch.input) :
                IF batch.op = "storeBatch"
                THEN /\ batch.out[i].cid \in 1..Len(ipfsStore)
                     /\ ipfsStore[batch.out[i].cid] = batch.elems[i].blob
                     /\ batch.elems[i].memory = batch.input[i]
                     /\ ipfsOrigin[batch.out[i].cid].memory = batch.input[i]
                     /\ ipfsOrigin[batch.out[i].cid].key = meshKey[batch.mesh]
                ELSE /\ batch.elems[i].cid = batch.input[i]
                     /\ batch.out[i].memory = ipfsOrigin[batch.input[i]].memory
    /\ (batch.op # "none" /\ batch.input = <<>>) =>
          /\ batch.state = "ok" /\ batch.out = <<>>
          /\ batch.elems = <<>> /\ batch.order = <<>>

\* a storeBatch of two different records whose second put completed first
C25_Witness ==
    /\ batch.op = "storeBatch" /\ batch.state = "ok"
    /\ Len(batch.input) = 2 /\ batch.input[1] # batch.input[2]
    /\ batch.order = <<2, 1>>
    /\ batch.out[1].cid # batch.out[2].cid

\* C26: storeBatch is not atomic towards the content store: the put of
\* every element is issued when storeBatch is called, whatever becomes of
\* the others; when storeBatch has failed, the blob of every element whose
\* put succeeded is in the store under its identifier, and the caller got no
\* identifier; no step takes a blob out of the store.
C26_NoRollback ==
    /\ [](batch.op = "storeBatch" =>
            /\ Len(batch.elems) = Len(batch.input)
            /\ \A i \in 1..Len(batch.elems) : batch.elems[i].stage \in {"add", "done"}
            /\ batch.state = "error" =>
                  /\ batch.out = <<>>
                  /\ \A i \in 1..Len(batch.elems) :
                        batch.elems[i].state = "ok" =>
                            /\ batch.elems[i].cid \in 1..Len(ipfsStore)
                            /\ ipfsStore[batch.elems[i].cid] = batch.elems[i].blob)
    /\ [][/\ Len(ipfsStore') >= Len(ipfsStore)
          /\ SubSeq(ipfsStore', 1, Len(ipfsStore)) = ipfsStore
          /\ (batch.op = "storeBatch" /\ batch.state = "error"
                 /\ ~ElemsSettled(batch) /\ batch' # batch) =>
                \E i \in 1..Len(batch.elems) :
                    /\ batch.elems[i].state = "pending" /\ batch'.elems[i].state # "pending"
                    /\ batch'.state = "error" /\ batch'.errAt = batch.errAt]_vars

\* a failed storeBatch of two records: the put of one failed, the put of
\* the other succeeded after that and its blob is in the store
C26_Witness ==
    /\ batch.op = "storeBatch" /\ batch.state = "error"
    /\ Len(batch.elems) = 2 /\ Len(batch.order) = 2
    /\ batch.elems[batch.order[1]].state = "error"
    /\ batch.elems[batch.order[2]].state = "ok"
    /\ ipfsStore[batch.elems[batch.order[2]].cid] = batch.elems[batch.order[2]].blob

-----------------------------------------------------------------------------
(* Claims about retrieve and store of one record, checked under SpecMesh   *)

\* per blob and key: the blob authenticates and decrypts under the key, but
\* its plaintext is not the JSON text of a record
Undeserializable ==
    [packed \in StorableBlobs, key \in KeyBuffers |->
        LET decrypted == decrypt(unpackPayload(packed).payload, Buf(key))
            parsed == JsonParse(Utf8Decode(decrypted.data))
        IN  decrypted.ok /\ (~parsed.ok \/ parsed.v.t # "obj")]

\* C12: retrieve reports its failure cause by kind: the failure of the
\* lookup when the content store has no blob for the identifier, a format
\* (deserialization) failure when the blob authenticates and decrypts but its
\* plaintext is not a record; in neither case is a record returned.
C12_RetrieveErrorKinds ==
    /\ (call.op = "retrieve" /\ call.state # "pending" /\ call.cid > Len(ipfsStore)) =>
          /\ call.state = "error" /\ call.stage = "cat"
          /\ call.err = "HttpError" /\ call.out = JNull
    /\ (Retrieved /\ Undeserializable[ipfsStore[call.cid], meshKey[call.mesh]]) =>
          /\ call.state = "error" /\ call.stage = "parse"
          /\ call.err = "SyntaxError" /\ call.out = JNull

\* two key configurations that denote one key: the same configuration, or a
\* passphrase and the buffer derived from it
SameKey(c1, c2) ==
    \/ c1 = c2
    \/ c1.kind = "string" /\ c2 = Buf(deriveKey(c1.val))
    \/ c2.kind = "string" /\ c1 = Buf(deriveKey(c2.val))

\* C17: key handling is deterministic and pass-through: an instance built
\* from passphrase P and one built from the buffer deriveKey(P) hold the same
\* 32-byte key and each retrieves what the other stored, as do two instances
\* built from the same passphrase; instances built from different keys do
\* not.
C17_KeyHandling ==
    /\ \A m \in Meshes :
          /\ Len(meshKey[m]) = KEY_LENGTH
          /\ meshConfig[m].kind = "buffer" => meshKey[m] = meshConfig[m].val
    /\ \A m, w \in Meshes :
          SameKey(meshConfig[m], meshConfig[w]) <=> meshKey[m] = meshKey[w]
    /\ (Retrieved /\ ~ipfsOrigin[call.cid].foreign) =>
          \A w \in Meshes :
              meshKey[w] = ipfsOrigin[call.cid].key =>
                  ((call.state = "ok" /\ call.out = ipfsOrigin[call.cid].memory)
                      <=> SameKey(meshConfig[w], meshConfig[call.mesh]))

\* the instance built from the buffer deriveKey(P) retrieves a record sealed
\* under the key of the instance built from the passphrase P
C17_Witness ==
    /\ meshConfig["m1"].kind = "string"
    /\ meshConfig["m2"] = Buf(deriveKey(meshConfig["m1"].val))
    /\ Retrieved /\ call.mesh = "m2" /\ call.state = "ok"
    /\ ~ipfsOrigin[call.cid].foreign
    /\ ipfsOrigin[call.cid].key = meshKey["m1"]
    /\ call.out = ipfsOrigin[call.cid].memory

\* C19: the size returned by store(record) is the byte length of the packed
\* blob handed to the content store, 28 plus the byte length of the
\* serialized record, whatever size figure the content store reports.
C19_StoreSize ==
    (call.op = "store" /\ call.state = "ok") =>
        /\ call.size = Len(call.blob)
        /\ call.size = MinBlobLen + Len(Utf8Encode(JsonStringify(call.memory)))

-----------------------------------------------------------------------------
(* Claims about the gateway client, checked under SpecGateway and, for     *)
(* liveness, SpecGatewayLive                                               *)

\* C13: every external call eventually completes: if the remote side never
\* answers, or sends the response headers and never finishes the body, the
\* pending call is cancelled by its timeout and fails.
C13_CallsComplete == GwInFlight ~> ~GwInFlight

\* C14: an authenticated operation (store, storeString, search, list,
\* delete, stats) called while no API key is set fails with a configuration
\* error before any request is sent; register, retrieve, retrieveString and
\* status proceed without a key; once a key is set the authenticated
\* operation sends it in the X-Api-Key header.
C14_KeyRequired ==
    [][(~GwInFlight /\ gwCall' # gwCall) =>
          IF gwCall'.op \in AuthOps
          THEN IF gwKey \in {"none", ""}
               THEN /\ ~gwCall'.sent
                    /\ gwCall'.state = "error"
                    /\ gwCall'.err = AgentMeshError("API key required", 0, NoBody)
               ELSE /\ gwCall'.sent /\ gwCall'.state = "headers"
                    /\ gwCall'.keyHeader = gwKey
          ELSE /\ gwCall'.sent /\ gwCall'.state = "headers"
               /\ gwCall'.keyHeader = "absent"]_vars

\* store() called with no key set: failed, nothing sent
C14_Witness ==
    /\ gwCall.op = "store" /\ gwCall.keyAtCall = "none"
    /\ gwCall.state = "error" /\ ~gwCall.sent
    /\ gwCall.err.message = "API key required"

\* C15: every non-2xx gateway response makes the operation fail with an
\* AgentMeshError whose statusCode is the HTTP status and whose response is
\* the response body, whatever the body; a 2xx response never produces an
\* error.
C15_NonOkIsTypedError ==
    (gwCall.op \notin {"none", "isOnline"} /\ gwCall.body # NoBody) =>
        IF ResponseOk(gwCall.status)
        THEN gwCall.state = "ok"
        ELSE /\ gwCall.state = "error"
             /\ gwCall.err.name = "AgentMeshError"
             /\ gwCall.err.statusCode = gwCall.status
             /\ gwCall.err.response = gwCall.body

\* C23: when register() succeeds with a response that carries an apiKey,
\* that key becomes the client's key, whatever key was set before; a
\* register that fails leaves the key as it was; the key changes in no other
\* way than by setApiKey or such a register, and an authenticated operation
\* called while a key is held sends that key.
C23_RegisterSetsKey ==
    [][/\ (gwCall.op = "register" /\ GwInFlight /\ gwCall'.state = "ok"
              /\ gwCall'.out.apiKey # "none") => gwKey' = gwCall'.out.apiKey
       /\ (gwCall.op = "register" /\ GwInFlight /\ gwCall'.state = "error") =>
              gwKey' = gwKey
       /\ gwKey' # gwKey =>
              \/ gwCall' = gwCall
              \/ /\ gwCall.op = "register" /\ GwInFlight /\ gwCall'.state = "ok"
                 /\ gwKey' = gwCall'.out.apiKey
       /\ (~GwInFlight /\ gwCall' # gwCall /\ gwCall'.op \in AuthOps
              /\ gwKey \notin {"none", ""}) =>
              (gwCall'.sent /\ gwCall'.keyHeader = gwKey)]_vars

\* register() was called with an older key set and has returned a new one
C23_Witness ==
    /\ gwCall.op = "register" /\ gwCall.state = "ok"
    /\ gwCall.keyAtCall = "mesh_old"
    /\ gwCall.out.apiKey = "mesh_new" /\ gwKey = "mesh_new"

-----------------------------------------------------------------------------
(* Claims about the string API, checked under SpecString                   *)

\* C16: for every string s, non-ASCII and multi-byte text included, and
\* every key k of generateKey(), decrypt(encrypt(s, k), k) = s, and
\* encrypt(s, k) is never equal to s.
C16_StringRoundTrip ==
    /\ (strCall.phase = "done" /\ strCall.decKey = strCall.key) =>
          (strCall.out.ok /\ strCall.out.s = strCall.s)
    /\ strCall.phase \in {"encrypted", "done"} =>
          (strCall.cipher.ok /\ B64Text(strCall.cipher.s) # strCall.s)

-----------------------------------------------------------------------------
(* Claims about two MeshDiscovery instances, checked under SpecInstances   *)

\* the peer ids findMeshPeers() of instance d classifies as mesh peers
MeshIds(d) == {BootstrapPeers(d)[i].peerId : i \in 1..Len(BootstrapPeers(d))}

\* C22: discovery instances are independent: an addBootstrapPeer call on
\* one instance leaves the bootstrap list of every other instance, and with
\* it the targets of its bootstrap() and the classification of its
\* findMeshPeers(), as they were, also when both instances were created
\* without a bootstrapPeers list.
C22_InstancesIndependent ==
    [][\A d \in instances, peer \in AddablePeers :
          addBootstrapPeer(d, peer) =>
              \A e \in instances \ {d} :
                  /\ BootstrapPeers(e)' = BootstrapPeers(e)
                  /\ MeshIds(e)' = MeshIds(e)]_vars

=============================================================================
